---------------------------- MODULE Spec2Model ----------------------------
(***************************************************************************)
(* A model of the xMath 4x4 matrix / quaternion / TRS-transform core.      *)
(*                                                                         *)
(* A client program builds one object, a Mat4 `cur` or a Quat `qcur`, and   *)
(* calls the library on it: constructors and factories, Transforms::Compose*)
(* and Decompose, the Mat4 copy constructor, the Mat4 and Quat operators,  *)
(* the in-place mutators, and the legacy Matrix.  Every call is one action;*)
(* the operands and the result of the last call are kept in the state so   *)
(* that properties of a call are state predicates.                         *)
(*                                                                         *)
(* Numbers.  A C++ float is modelled by an exact rational <<n, d>> in      *)
(* lowest terms with d > 0, or by one of the IEEE-754 non-finite values:   *)
(* <<1, 0>> is +inf, <<-1, 0>> is -inf and <<0, 0>> is NaN.  Rounding is   *)
(* not modelled (the inputs are small integers and small fractions, whose  *)
(* sums and products the model computes exactly), and zero carries no      *)
(* sign: x / 0 takes the sign of x.  sqrt of a non-square, sinf, cosf and  *)
(* acosf give their result to two decimals.                                *)
(*                                                                         *)
(* Returning a named local by value (`return result;`) is modelled as      *)
(* returning the value of that local, which is what the builds that apply  *)
(* the named-return-value optimisation produce and what the test suite     *)
(* under src/tests observes.  A copy the code writes out explicitly        *)
(* (`Mat4 LocalMatrix(transform);`) is the copy constructor, Mat4Copy.     *)
(***************************************************************************)
EXTENDS Integers, Sequences, FiniteSets, TLC

\* ------------------------------------------------------------------------
\* Bounds of the model
\* ------------------------------------------------------------------------
MaxT == 2
MaxS == 2
MaxCell == 2

\* ------------------------------------------------------------------------
\* float: arithmetic and comparison
\* ------------------------------------------------------------------------
RECURSIVE GCD(_, _)
GCD(a, b) == IF b = 0 THEN a ELSE GCD(b, a % b)

AbsI(n) == IF n < 0 THEN -n ELSE n

SgnI(n) == IF n < 0 THEN -1 ELSE IF n > 0 THEN 1 ELSE 0

\* the rational n/d (d > 0) in lowest terms
Norm(n, d) ==
    LET g == GCD(AbsI(n), d) IN <<n \div g, d \div g>>

F(n) == <<n, 1>>
Q(n, d) == Norm(n, d)
NaN == <<0, 0>>
PInf == <<1, 0>>
NInf == <<-1, 0>>

IsNaN(x) == x = NaN
IsInf(x) == x[2] = 0 /\ x[1] # 0
isfinite(x) == x[2] # 0
IsZero(x) == x[2] # 0 /\ x[1] = 0

FNeg(x) == <<-x[1], x[2]>>

FAdd(x, y) ==
    IF IsNaN(x) \/ IsNaN(y) THEN NaN
    ELSE IF IsInf(x) /\ IsInf(y) THEN (IF x = y THEN x ELSE NaN)
    ELSE IF IsInf(x) THEN x
    ELSE IF IsInf(y) THEN y
    ELSE LET g == GCD(x[2], y[2])
         IN Norm(x[1] * (y[2] \div g) + y[1] * (x[2] \div g), (x[2] \div g) * y[2])

FSub(x, y) == FAdd(x, FNeg(y))

FMul(x, y) ==
    IF IsNaN(x) \/ IsNaN(y) THEN NaN
    ELSE IF IsInf(x) \/ IsInf(y)
         THEN (IF IsZero(x) \/ IsZero(y) THEN NaN
               ELSE <<SgnI(x[1]) * SgnI(y[1]), 0>>)
    ELSE LET g == GCD(AbsI(x[1]), y[2])
             h == GCD(AbsI(y[1]), x[2])
         IN Norm((x[1] \div g) * (y[1] \div h), (x[2] \div h) * (y[2] \div g))

FDiv(x, y) ==
    IF IsNaN(x) \/ IsNaN(y) THEN NaN
    ELSE IF IsInf(y) THEN (IF IsInf(x) THEN NaN ELSE F(0))
    ELSE IF IsInf(x) THEN (IF y[1] < 0 THEN FNeg(x) ELSE x)
    ELSE IF IsZero(y) THEN (IF IsZero(x) THEN NaN ELSE <<SgnI(x[1]), 0>>)
    ELSE FMul(x, <<y[2] * SgnI(y[1]), AbsI(y[1])>>)

\* x < y as the C++ operator< on float decides it (false when unordered)
FLt(x, y) ==
    IF IsNaN(x) \/ IsNaN(y) THEN FALSE
    ELSE IF x = y THEN FALSE
    ELSE IF x = NInf \/ y = PInf THEN TRUE
    ELSE IF x = PInf \/ y = NInf THEN FALSE
    ELSE LET fx == x[1] \div x[2]
             fy == y[1] \div y[2]
         IN IF fx # fy THEN fx < fy
            ELSE (x[1] % x[2]) * y[2] < (y[1] % y[2]) * x[2]

FGt(x, y) == FLt(y, x)

\* x == y as the C++ operator== on float decides it (NaN equals nothing)
FEq(x, y) == ~IsNaN(x) /\ ~IsNaN(y) /\ x = y

FLe(x, y) == FLt(x, y) \/ FEq(x, y)

fabs(x) == <<AbsI(x[1]), x[2]>>

\* floor of the integer square root of n, by bisection of lo..hi
\* (lo * lo <= n < hi * hi)
RECURSIVE ISqrtFrom(_, _, _)
ISqrtFrom(n, lo, hi) ==
    IF hi - lo <= 1 THEN lo
    ELSE IF ((lo + hi) \div 2) * ((lo + hi) \div 2) > n
         THEN ISqrtFrom(n, lo, (lo + hi) \div 2)
         ELSE ISqrtFrom(n, (lo + hi) \div 2, hi)

\* the root of a 32-bit integer is below 2^15.5
ISqrt(n) == ISqrtFrom(n, 0, 46341)

\* the integer nearest to the square root of n (round to nearest, as the
\* floating-point square root rounds)
RoundedRoot(n) == IF n > ISqrt(n) * ISqrt(n) + ISqrt(n) THEN ISqrt(n) + 1 ELSE ISqrt(n)

\* resolution to which an irrational square root is rounded
SqrtScale == 100

\* std::sqrt: exact on squares of rationals, rounded to the nearest
\* 1/SqrtScale otherwise
sqrt(x) ==
    IF IsNaN(x) \/ x = NInf THEN NaN
    ELSE IF x = PInf THEN PInf
    ELSE IF x[1] < 0 THEN NaN
    ELSE LET rn == ISqrt(x[1])
             rd == ISqrt(x[2])
         IN IF rn * rn = x[1] /\ rd * rd = x[2]
            THEN Norm(rn, rd)
            ELSE Norm(RoundedRoot((x[1] * SqrtScale * SqrtScale) \div x[2]), SqrtScale)

\* sqrtf: the float overload of std::sqrt
sqrtf(x) == sqrt(x)

\* std::clamp(v, lo, hi): (v < lo) ? lo : (hi < v) ? hi : v
clamp(v, lo, hi) == IF FLt(v, lo) THEN lo ELSE IF FLt(hi, v) THEN hi ELSE v

\* sinf, cosf and acosf work on angles in fixed point, 1/TrigFixed of a radian,
\* and give their result to the resolution 1/SqrtScale
TrigFixed == 10000

\* pi in units of 1/TrigFixed
PiFixed == 31416

ToFixed(x) == (x[1] * TrigFixed) \div x[2]

FromFixed(v) == Norm((v * SqrtScale + TrigFixed \div 2) \div TrigFixed, SqrtScale)

\* the angle m brought into [-pi, pi)
ReduceAngle(m) == ((m + PiFixed) % (2 * PiFixed)) - PiFixed

\* the Taylor series in Horner form, 1 - x2/d(k) * (1 - x2/d(k+1) * (...)), seven
\* terms deep, with d(k) = (2k - 1 + odd)(2k + odd): odd = 0 for cos, 1 for sin
RECURSIVE Horner(_, _, _)
Horner(x2, k, odd) ==
    IF k > 7 THEN TrigFixed
    ELSE TrigFixed - (x2 * Horner(x2, k + 1, odd))
                         \div ((2 * k - 1 + odd) * (2 * k + odd) * TrigFixed)

CosFixed(m) == Horner((m * m) \div TrigFixed, 1, 0)

SinFixed(m) == (m * Horner((m * m) \div TrigFixed, 1, 1)) \div TrigFixed

cosf(x) == IF ~isfinite(x) THEN NaN ELSE FromFixed(CosFixed(ReduceAngle(ToFixed(x))))

sinf(x) == IF ~isfinite(x) THEN NaN ELSE FromFixed(SinFixed(ReduceAngle(ToFixed(x))))

\* the angle in [lo, hi] whose cosine is target, by bisection (cos falls on [0, pi])
RECURSIVE AcosBisect(_, _, _)
AcosBisect(lo, hi, target) ==
    IF hi - lo <= 1 THEN lo
    ELSE IF CosFixed((lo + hi) \div 2) > target
         THEN AcosBisect((lo + hi) \div 2, hi, target)
         ELSE AcosBisect(lo, (lo + hi) \div 2, target)

acosf(x) ==
    IF ~isfinite(x) \/ FLt(x, F(-1)) \/ FGt(x, F(1)) THEN NaN
    ELSE FromFixed(AcosBisect(0, PiFixed, ToFixed(x)))

\* ------------------------------------------------------------------------
\* Vec3, Vec4, Quat, Mat4 values
\* ------------------------------------------------------------------------
Vec3(x, y, z) == [i \in 0..2 |-> IF i = 0 THEN x ELSE IF i = 1 THEN y ELSE z]

Vec4(x, y, z, w) ==
    [i \in 0..3 |-> IF i = 0 THEN x ELSE IF i = 1 THEN y ELSE IF i = 2 THEN z ELSE w]

\* Vec3(const Vec4&): drops w
Vec3FromVec4(v) == Vec3(v[0], v[1], v[2])

\* Quat(w, x, y, z): parameter order (w, x, y, z), stored as fields x, y, z, w
Quat(qw, qx, qy, qz) == [x |-> qx, y |-> qy, z |-> qz, w |-> qw]

\* Quat(): the identity
QuatIdentity == Quat(F(1), F(0), F(0), F(0))

\* Mat4(initializer_list<Vec4>): four rows, row-major
Mat4Rows(r0, r1, r2, r3) ==
    [i \in 0..3 |-> IF i = 0 THEN r0 ELSE IF i = 1 THEN r1 ELSE IF i = 2 THEN r2 ELSE r3]

\* Mat4(): the zero matrix
Mat4Zero == [i \in 0..3 |-> [j \in 0..3 |-> F(0)]]

\* Mat4(float diagonal)
Mat4Diagonal(diagonal) == [i \in 0..3 |-> [j \in 0..3 |-> IF i = j THEN diagonal ELSE F(0)]]

Identity == Mat4Diagonal(F(1))

\* Mat4(const Mat4 &copy): the body is empty, so the member rows[4] is
\* default-initialised and every Vec4 default-constructs to (0, 0, 0, 0)
Mat4Copy(copy) == [i \in 0..3 |-> Vec4(F(0), F(0), F(0), F(0))]

Translate(translation) ==
    Mat4Rows(Vec4(F(1), F(0), F(0), translation[0]),
             Vec4(F(0), F(1), F(0), translation[1]),
             Vec4(F(0), F(0), F(1), translation[2]),
             Vec4(F(0), F(0), F(0), F(1)))

\* Mat4::Scale(const Vec3&)
Mat4Scale(scale) ==
    Mat4Rows(Vec4(scale[0], F(0), F(0), F(0)),
             Vec4(F(0), scale[1], F(0), F(0)),
             Vec4(F(0), F(0), scale[2], F(0)),
             Vec4(F(0), F(0), F(0), F(1)))

\* bool Mat4::operator==: exact comparison of the sixteen floats
Mat4Eq(a, b) == \A i \in 0..3 : \A j \in 0..3 : FEq(a[i][j], b[i][j])

\* sum of lhs[i][k] * rhs[k][j] for k = 0..n, accumulated in the loop's order
RECURSIVE MulAcc(_, _, _, _, _)
MulAcc(lhs, rhs, i, j, n) ==
    IF n < 0 THEN F(0)
    ELSE FAdd(MulAcc(lhs, rhs, i, j, n - 1), FMul(lhs[i][n], rhs[n][j]))

\* a product whose inner loop stops one term short (k < 3)
MultiplyShort(lhs, rhs) == [i \in 0..3 |-> [j \in 0..3 |-> MulAcc(lhs, rhs, i, j, 2)]]

\* Mat4::Multiply(const Mat4&, const Mat4&), also Mat4::operator*(const Mat4&)
Multiply(lhs, rhs) == [i \in 0..3 |-> [j \in 0..3 |-> MulAcc(lhs, rhs, i, j, 3)]]

\* a transpose that swaps only the upper-left 3x3 block
GetTransposeUpperLeft(mat) ==
    [i \in 0..3 |-> [j \in 0..3 |-> IF i < 3 /\ j < 3 THEN mat[j][i] ELSE mat[i][j]]]

\* Mat4::GetTranspose(const Mat4&): result.rows[i][j] = mat.rows[j][i]
GetTranspose(mat) == [i \in 0..3 |-> [j \in 0..3 |-> mat[j][i]]]

\* Mat4::operator+(const Mat4&): row by row, Vec4::operator+
Mat4Add(lhs, rhs) == [i \in 0..3 |-> [j \in 0..3 |-> FAdd(lhs[i][j], rhs[i][j])]]

\* Mat4::operator-(const Mat4&): row by row, Vec4::operator-
Mat4Sub(lhs, rhs) == [i \in 0..3 |-> [j \in 0..3 |-> FSub(lhs[i][j], rhs[i][j])]]

\* Mat4::operator*(float): row by row, Vec4::operator*(T)
Mat4MulScalar(lhs, rhs) == [i \in 0..3 |-> [j \in 0..3 |-> FMul(lhs[i][j], rhs)]]

\* Mat4::operator/(float): row by row, Vec4::operator/(T)
Mat4DivScalar(lhs, rhs) == [i \in 0..3 |-> [j \in 0..3 |-> FDiv(lhs[i][j], rhs)]]

\* value += lhs.rows[i][j] * rhs[j] for j = 0..n, from value = 0
RECURSIVE MulVecAcc(_, _, _, _)
MulVecAcc(lhs, rhs, i, n) ==
    IF n < 0 THEN F(0)
    ELSE FAdd(MulVecAcc(lhs, rhs, i, n - 1), FMul(lhs[i][n], rhs[n]))

\* Mat4::Multiply(const Mat4&, const Vec4&), also Mat4::operator*(const Vec4&)
MultiplyVec4(lhs, rhs) == [i \in 0..3 |-> MulVecAcc(lhs, rhs, i, 3)]

\* a Vec3 overload that divides x, y and z by the resulting w
Mat4MulVec3Divided(lhs, rhs) ==
    LET p == MultiplyVec4(lhs, Vec4(rhs[0], rhs[1], rhs[2], F(1)))
    IN IF FEq(p[3], F(1)) THEN p
       ELSE Vec4(FDiv(p[0], p[3]), FDiv(p[1], p[3]), FDiv(p[2], p[3]), p[3])

\* Mat4::operator*(const Vec3&): Multiply(*this, Vec4(rhs, 1.0f))
Mat4MulVec3(lhs, rhs) == MultiplyVec4(lhs, Vec4(rhs[0], rhs[1], rhs[2], F(1)))

\* Matrix(m00, m01, ..., m33): the legacy matrix, M[r][c] is its field m<r><c>
Matrix(cells) == [i \in 0..3 |-> [j \in 0..3 |-> cells[i][j]]]

\* x, y, z or w of Matrix::operator*(const Vec3&) before the division:
\* (rhs.x * m0c) + (rhs.y * m1c) + (rhs.z * m2c) + m3c
MatrixColumnDot(M, rhs, c) ==
    FAdd(FAdd(FAdd(FMul(rhs[0], M[0][c]), FMul(rhs[1], M[1][c])), FMul(rhs[2], M[2][c])),
         M[3][c])

\* the division of Matrix::operator*(const Vec3&): skipped only when w == 1
PerspectiveDivide(x, y, z, w) ==
    IF ~FEq(w, F(1)) THEN Vec3(FDiv(x, w), FDiv(y, w), FDiv(z, w)) ELSE Vec3(x, y, z)

\* Matrix::operator*(const Vec3&)
MatrixMulVec3(M, rhs) ==
    PerspectiveDivide(MatrixColumnDot(M, rhs, 0), MatrixColumnDot(M, rhs, 1),
                      MatrixColumnDot(M, rhs, 2), MatrixColumnDot(M, rhs, 3))

\* Mat4::GetInverse(const Mat4&), from the determinant on: n[r][c] is the local nrc
InverseFromCells(n) ==
    LET n11 == n[1][1]
        n12 == n[1][2]
        n13 == n[1][3]
        n14 == n[1][4]
        n21 == n[2][1]
        n22 == n[2][2]
        n23 == n[2][3]
        n24 == n[2][4]
        n31 == n[3][1]
        n32 == n[3][2]
        n33 == n[3][3]
        n34 == n[3][4]
        n41 == n[4][1]
        n42 == n[4][2]
        n43 == n[4][3]
        n44 == n[4][4]
        t11 == FAdd(FSub(FSub(FAdd(FSub(FMul(FMul(n23, n34), n42), FMul(FMul(n24, n33), n42)), FMul(FMul(n24, n32), n43)), FMul(FMul(n22, n34), n43)), FMul(FMul(n23, n32), n44)), FMul(FMul(n22, n33), n44))
        t12 == FSub(FAdd(FAdd(FSub(FSub(FMul(FMul(n14, n33), n42), FMul(FMul(n13, n34), n42)), FMul(FMul(n14, n32), n43)), FMul(FMul(n12, n34), n43)), FMul(FMul(n13, n32), n44)), FMul(FMul(n12, n33), n44))
        t13 == FAdd(FSub(FSub(FAdd(FSub(FMul(FMul(n13, n24), n42), FMul(FMul(n14, n23), n42)), FMul(FMul(n14, n22), n43)), FMul(FMul(n12, n24), n43)), FMul(FMul(n13, n22), n44)), FMul(FMul(n12, n23), n44))
        t14 == FSub(FAdd(FAdd(FSub(FSub(FMul(FMul(n14, n23), n32), FMul(FMul(n13, n24), n32)), FMul(FMul(n14, n22), n33)), FMul(FMul(n12, n24), n33)), FMul(FMul(n13, n22), n34)), FMul(FMul(n12, n23), n34))
        det == FAdd(FAdd(FAdd(FMul(n11, t11), FMul(n21, t12)), FMul(n31, t13)), FMul(n41, t14))
        idet == FDiv(F(1), det)
        r00 == FMul(t11, idet)
        r01 == FMul(FSub(FAdd(FAdd(FSub(FSub(FMul(FMul(n24, n33), n41), FMul(FMul(n23, n34), n41)), FMul(FMul(n24, n31), n43)), FMul(FMul(n21, n34), n43)), FMul(FMul(n23, n31), n44)), FMul(FMul(n21, n33), n44)), idet)
        r02 == FMul(FAdd(FSub(FSub(FAdd(FSub(FMul(FMul(n22, n34), n41), FMul(FMul(n24, n32), n41)), FMul(FMul(n24, n31), n42)), FMul(FMul(n21, n34), n42)), FMul(FMul(n22, n31), n44)), FMul(FMul(n21, n32), n44)), idet)
        r03 == FMul(FSub(FAdd(FAdd(FSub(FSub(FMul(FMul(n23, n32), n41), FMul(FMul(n22, n33), n41)), FMul(FMul(n23, n31), n42)), FMul(FMul(n21, n33), n42)), FMul(FMul(n22, n31), n43)), FMul(FMul(n21, n32), n43)), idet)
        r10 == FMul(t12, idet)
        r11 == FMul(FAdd(FSub(FSub(FAdd(FSub(FMul(FMul(n13, n34), n41), FMul(FMul(n14, n33), n41)), FMul(FMul(n14, n31), n43)), FMul(FMul(n11, n34), n43)), FMul(FMul(n13, n31), n44)), FMul(FMul(n11, n33), n44)), idet)
        r12 == FMul(FSub(FAdd(FAdd(FSub(FSub(FMul(FMul(n14, n32), n41), FMul(FMul(n12, n34), n41)), FMul(FMul(n14, n31), n42)), FMul(FMul(n11, n34), n42)), FMul(FMul(n12, n31), n44)), FMul(FMul(n11, n32), n44)), idet)
        r13 == FMul(FAdd(FSub(FSub(FAdd(FSub(FMul(FMul(n12, n33), n41), FMul(FMul(n13, n32), n41)), FMul(FMul(n13, n31), n42)), FMul(FMul(n11, n33), n42)), FMul(FMul(n12, n31), n43)), FMul(FMul(n11, n32), n43)), idet)
        r20 == FMul(t13, idet)
        r21 == FMul(FSub(FAdd(FAdd(FSub(FSub(FMul(FMul(n14, n23), n41), FMul(FMul(n13, n24), n41)), FMul(FMul(n14, n21), n43)), FMul(FMul(n11, n24), n43)), FMul(FMul(n13, n21), n44)), FMul(FMul(n11, n23), n44)), idet)
        r22 == FMul(FAdd(FSub(FSub(FAdd(FSub(FMul(FMul(n12, n24), n41), FMul(FMul(n14, n22), n41)), FMul(FMul(n14, n21), n42)), FMul(FMul(n11, n24), n42)), FMul(FMul(n12, n21), n44)), FMul(FMul(n11, n22), n44)), idet)
        r23 == FMul(FSub(FAdd(FAdd(FSub(FSub(FMul(FMul(n13, n22), n41), FMul(FMul(n12, n23), n41)), FMul(FMul(n13, n21), n42)), FMul(FMul(n11, n23), n42)), FMul(FMul(n12, n21), n43)), FMul(FMul(n11, n22), n43)), idet)
        r30 == FMul(t14, idet)
        r31 == FMul(FAdd(FSub(FSub(FAdd(FSub(FMul(FMul(n13, n24), n31), FMul(FMul(n14, n23), n31)), FMul(FMul(n14, n21), n33)), FMul(FMul(n11, n24), n33)), FMul(FMul(n13, n21), n34)), FMul(FMul(n11, n23), n34)), idet)
        r32 == FMul(FSub(FAdd(FAdd(FSub(FSub(FMul(FMul(n14, n22), n31), FMul(FMul(n12, n24), n31)), FMul(FMul(n14, n21), n32)), FMul(FMul(n11, n24), n32)), FMul(FMul(n12, n21), n34)), FMul(FMul(n11, n22), n34)), idet)
        r33 == FMul(FAdd(FSub(FSub(FAdd(FSub(FMul(FMul(n12, n23), n31), FMul(FMul(n13, n22), n31)), FMul(FMul(n13, n21), n32)), FMul(FMul(n11, n23), n32)), FMul(FMul(n12, n21), n33)), FMul(FMul(n11, n22), n33)), idet)
    IN Mat4Rows(Vec4(r00, r01, r02, r03),
                Vec4(r10, r11, r12, r13),
                Vec4(r20, r21, r22, r23),
                Vec4(r30, r31, r32, r33))

\* reads the sixteen locals in row order: nrc = matrix[r-1][c-1]
GetInverseRowOrder(matrix) ==
    InverseFromCells([r \in 1..4 |-> [c \in 1..4 |-> matrix[r - 1][c - 1]]])

\* an inverse that checks its result and falls back to the identity
GetInverseGuarded(matrix) ==
    LET inv == InverseFromCells([r \in 1..4 |-> [c \in 1..4 |-> matrix[c - 1][r - 1]]])
    IN IF \E i \in 0..3 : \E j \in 0..3 : ~isfinite(inv[i][j]) THEN Mat4Diagonal(F(1)) ELSE inv

\* Mat4::GetInverse(const Mat4&): the locals are read transposed,
\* n12 = matrix[1][0], and the closed form is applied with no singularity check
GetInverse(matrix) ==
    InverseFromCells([r \in 1..4 |-> [c \in 1..4 |-> matrix[c - 1][r - 1]]])

\* Mat4::GetCofactor: the cells of mat's upper-left n x n block outside row p
\* and column q, written in order into the upper-left (n-1) x (n-1) block of
\* cofactor; the other cells of cofactor keep their values
GetCofactor(mat, cofactor, p, q, n) ==
    [i \in 0..3 |-> [j \in 0..3 |->
        IF i < n - 1 /\ j < n - 1
        THEN mat[IF i < p THEN i ELSE i + 1][IF j < q THEN j ELSE j + 1]
        ELSE cofactor[i][j]]]

\* Mat4::GetDeterminant(mat, n): expansion along row 0; DeterminantFrom is the
\* loop from column f on, with the running sum and the alternating sign
RECURSIVE GetDeterminant(_, _)
RECURSIVE DeterminantFrom(_, _, _, _, _)
DeterminantFrom(mat, n, f, sign, determinant) ==
    IF f >= n THEN determinant
    ELSE DeterminantFrom(mat, n, f + 1, -sign,
            FAdd(determinant,
                 FMul(FMul(F(sign), mat[0][f]),
                      GetDeterminant(GetCofactor(mat, Mat4Zero, 0, f, n), n - 1))))

GetDeterminant(mat, n) ==
    IF n = 1 THEN mat[0][0] ELSE DeterminantFrom(mat, n, 0, 1, F(0))

\* the signed minors stored without interchanging rows and columns
GetCofactorMatrix(mat) ==
    [i \in 0..3 |-> [j \in 0..3 |->
        FMul(F(IF (i + j) % 2 = 0 THEN 1 ELSE -1),
             GetDeterminant(GetCofactor(mat, Mat4Zero, i, j, 4), 3))]]

\* Mat4::GetAdjoint: adj[j][i] = sign * GetDeterminant(cofactor of mat[i][j], 3)
GetAdjoint(mat) ==
    [j \in 0..3 |-> [i \in 0..3 |->
        FMul(F(IF (i + j) % 2 = 0 THEN 1 ELSE -1),
             GetDeterminant(GetCofactor(mat, Mat4Zero, i, j, 4), 3))]]

\* Quat::ToMatrix(const Quat&) from invs on, mat = &rows[0][0]
RotationCells(q, invs) ==
    LET sqw == FMul(q.w, q.w)
        sqx == FMul(q.x, q.x)
        sqy == FMul(q.y, q.y)
        sqz == FMul(q.z, q.z)
        xy == FMul(q.x, q.y)
        zw == FMul(q.z, q.w)
        xz == FMul(q.x, q.z)
        yw == FMul(q.y, q.w)
        yz == FMul(q.y, q.z)
        xw == FMul(q.x, q.w)
        mat0 == FMul(FAdd(FSub(FSub(sqx, sqy), sqz), sqw), invs)
        mat5 == FMul(FAdd(FSub(FAdd(FNeg(sqx), sqy), sqz), sqw), invs)
        mat10 == FMul(FAdd(FAdd(FSub(FNeg(sqx), sqy), sqz), sqw), invs)
        mat4 == FMul(FMul(F(2), FAdd(xy, zw)), invs)
        mat1 == FMul(FMul(F(2), FSub(xy, zw)), invs)
        mat8 == FMul(FMul(F(2), FSub(xz, yw)), invs)
        mat2 == FMul(FMul(F(2), FAdd(xz, yw)), invs)
        mat9 == FMul(FMul(F(2), FAdd(yz, xw)), invs)
        mat6 == FMul(FMul(F(2), FSub(yz, xw)), invs)
    IN Mat4Rows(Vec4(mat0, mat1, mat2, F(0)),
                Vec4(mat4, mat5, mat6, F(0)),
                Vec4(mat8, mat9, mat10, F(0)),
                Vec4(F(0), F(0), F(0), F(1)))

\* a conversion that takes the quaternion for a unit one: invs = 1
ToMatrixUnit(q) == RotationCells(q, F(1))

\* Quat::ToMatrix(const Quat&): normalisation-factor form,
\* invs = 1 / (sqx + sqy + sqz + sqw)
ToMatrix(q) ==
    RotationCells(q, FDiv(F(1), FAdd(FAdd(FAdd(FMul(q.x, q.x), FMul(q.y, q.y)),
                                          FMul(q.z, q.z)), FMul(q.w, q.w))))

\* a composition in the order S * R * T
ComposeSRT(translation, rotation, scale) ==
    Multiply(Multiply(Mat4Scale(scale), ToMatrix(rotation)), Translate(translation))

\* Transforms::Compose: T * R * S
Compose(translation, rotation, scale) ==
    Multiply(Multiply(Translate(translation), ToMatrix(rotation)), Mat4Scale(scale))

\* ------------------------------------------------------------------------
\* Quat
\* ------------------------------------------------------------------------
\* the four assignments to q.w, q.x, q.y, q.z of Quat::operator*(const Quat&)
QuatProduct(lhs, rhs) ==
    Quat(FSub(FSub(FSub(FMul(lhs.w, rhs.w), FMul(lhs.x, rhs.x)), FMul(lhs.y, rhs.y)),
              FMul(lhs.z, rhs.z)),
         FSub(FAdd(FAdd(FMul(lhs.w, rhs.x), FMul(lhs.x, rhs.w)), FMul(lhs.y, rhs.z)),
              FMul(lhs.z, rhs.y)),
         FAdd(FAdd(FSub(FMul(lhs.w, rhs.y), FMul(lhs.x, rhs.z)), FMul(lhs.y, rhs.w)),
              FMul(lhs.z, rhs.x)),
         FAdd(FSub(FAdd(FMul(lhs.w, rhs.z), FMul(lhs.x, rhs.y)), FMul(lhs.y, rhs.x)),
              FMul(lhs.z, rhs.w)))

\* a product with its operands exchanged
QuatMulExchanged(lhs, rhs) == QuatProduct(rhs, lhs)

\* Quat::operator*(const Quat&): the Hamilton product, built in a local q
QuatMul(lhs, rhs) == QuatProduct(lhs, rhs)

\* a compound product that stores the product in *this
QuatMulAssignStoring(self, rhs) == QuatMul(self, rhs)

\* Quat::operator*=(const Quat&), the value of *this afterwards: the product is
\* built in the local q, which is never assigned to *this
QuatMulAssign(self, rhs) == self

\* operator*(float f, const Quat& m), also Quat::operator*(float)
QuatScale(f, m) == Quat(FMul(m.w, f), FMul(m.x, f), FMul(m.y, f), FMul(m.z, f))

\* Quat::Dot: w * b.w + x * b.x + y * b.y + z * b.z
QuatDot(p, q) ==
    FAdd(FAdd(FAdd(FMul(p.w, q.w), FMul(p.x, q.x)), FMul(p.y, q.y)), FMul(p.z, q.z))

\* Quat::GetSqrMagnitude: x * x + y * y + z * z + w * w
GetSqrMagnitude(q) ==
    FAdd(FAdd(FAdd(FMul(q.x, q.x), FMul(q.y, q.y)), FMul(q.z, q.z)), FMul(q.w, q.w))

\* the division of every component by mag
QuatOver(q, mag) == Quat(FDiv(q.w, mag), FDiv(q.x, mag), FDiv(q.y, mag), FDiv(q.z, mag))

\* GetNormalized after the test of mag2
NormalizedBy(q, mag) ==
    IF FLe(mag, F(0)) THEN Quat(F(1), F(0), F(0), F(0)) ELSE QuatOver(q, mag)

\* a normalisation without the identity fallback
GetNormalizedUnguarded(q) == QuatOver(q, sqrtf(QuatDot(q, q)))

\* Quat::GetNormalized, also normalize() and Quat::Normalize(const Quat&)
GetNormalized(q) ==
    IF FLe(QuatDot(q, q), F(0)) THEN Quat(F(1), F(0), F(0), F(0))
    ELSE NormalizedBy(q, sqrtf(QuatDot(q, q)))

\* void Quat::Normalize(), the value of *this afterwards
Normalize(q) == QuatOver(q, sqrtf(QuatDot(q, q)))

\* Quat::Conjugate(): returns {w, -x, -y, -z}
Conjugate(q) == Quat(q.w, FNeg(q.x), FNeg(q.y), FNeg(q.z))

\* the components of q times invSqr, the vector part negated first
InverseBy(q, invSqr) ==
    Quat(FMul(q.w, invSqr), FMul(FNeg(q.x), invSqr), FMul(FNeg(q.y), invSqr),
         FMul(FNeg(q.z), invSqr))

\* an inverse that takes the quaternion for a unit one: the conjugate
QuatGetInverseUnit(q) == InverseBy(q, F(1))

\* Quat::GetInverse, also inverse() and Quat::Inverse(const Quat&)
QuatGetInverse(q) == InverseBy(q, FDiv(F(1), GetSqrMagnitude(q)))

\* Quat::operator*(const Vec3&): ToMatrix(*this) * Vec4(rhs, 1.0f), as a Vec3
QuatMulVec3(q, rhs) ==
    Vec3FromVec4(MultiplyVec4(ToMatrix(q), Vec4(rhs[0], rhs[1], rhs[2], F(1))))

\* the quaternion the "OLD" block of EulerRadians and SetEulerDegrees build
\* from the sines and cosines of the three half angles
HalfAngleQuat(sinx, siny, sinz, cosx, cosy, cosz) ==
    Quat(FAdd(FMul(FMul(cosx, cosy), cosz), FMul(FMul(sinx, siny), sinz)),
         FAdd(FMul(FMul(sinx, cosy), cosz), FMul(FMul(cosx, siny), sinz)),
         FSub(FMul(FMul(cosx, siny), cosz), FMul(FMul(sinx, cosy), sinz)),
         FSub(FMul(FMul(cosx, cosy), sinz), FMul(FMul(sinx, siny), cosz)))

\* EulerRadians after X *= 0.5f, Y *= 0.5f, Z *= 0.5f
HalfAngles(X, Y, Z) == HalfAngleQuat(sinf(X), sinf(Y), sinf(Z), cosf(X), cosf(Y), cosf(Z))

\* Quat::EulerRadians(X, Y, Z): the locals qw, qx, qy, qz of the "NEW" block
\* are computed and dropped; the quaternion q of the "OLD" block is returned
EulerRadians(X, Y, Z) == HalfAngles(FMul(X, Q(1, 2)), FMul(Y, Q(1, 2)), FMul(Z, Q(1, 2)))

\* 0.0174532925f, degrees to radians, to four significant digits
DegToRad == Q(349, 20000)

\* Quat::EulerDegrees(X, Y, Z)
EulerDegrees(X, Y, Z) == EulerRadians(FMul(X, DegToRad), FMul(Y, DegToRad), FMul(Z, DegToRad))

\* void Quat::SetEulerDegrees(X, Y, Z), the value of *this afterwards
SetEulerDegrees(X, Y, Z) ==
    HalfAngles(FMul(FMul(X, DegToRad), Q(1, 2)), FMul(FMul(Y, DegToRad), Q(1, 2)),
               FMul(FMul(Z, DegToRad), Q(1, 2)))

\* the small-angle branch of Slerp: a + t * (b - a), normalised
SlerpNlerp(a, b, t) ==
    GetNormalized(Quat(FAdd(a.w, FMul(t, FSub(b.w, a.w))), FAdd(a.x, FMul(t, FSub(b.x, a.x))),
                       FAdd(a.y, FMul(t, FSub(b.y, a.y))), FAdd(a.z, FMul(t, FSub(b.z, a.z)))))

\* s0 * a + s1 * b
SlerpBlend(a, b, s0, s1) ==
    Quat(FAdd(FMul(s0, a.w), FMul(s1, b.w)), FAdd(FMul(s0, a.x), FMul(s1, b.x)),
         FAdd(FMul(s0, a.y), FMul(s1, b.y)), FAdd(FMul(s0, a.z), FMul(s1, b.z)))

\* the arc branch of Slerp from theta0 = acosf(dot) and theta = theta0 * t
SlerpArc(a, b, dot, theta0, theta) ==
    SlerpBlend(a, b,
               FSub(cosf(theta), FDiv(FMul(dot, sinf(theta)), sinf(theta0))),
               FDiv(sinf(theta), sinf(theta0)))

\* Slerp from dot = std::clamp(dot, -1.0f, 1.0f) on
SlerpClamped(a, b, dot, t) ==
    IF FLt(FSub(F(1), dot), Q(1, 1000))
    THEN SlerpNlerp(a, b, t)
    ELSE SlerpArc(a, b, dot, acosf(dot), FMul(acosf(dot), t))

\* Slerp from the test dot < 0.0f on, a and b being the normalised operands
SlerpShortest(a, b, dot, t) ==
    IF FLt(dot, F(0))
    THEN SlerpClamped(a, Quat(FNeg(b.w), FNeg(b.x), FNeg(b.y), FNeg(b.z)),
                      clamp(FNeg(dot), F(-1), F(1)), t)
    ELSE SlerpClamped(a, b, clamp(dot, F(-1), F(1)), t)

\* a Slerp that never negates its second operand
SlerpLongWay(from, to, t) ==
    SlerpClamped(GetNormalized(from), GetNormalized(to),
                 clamp(QuatDot(GetNormalized(from), GetNormalized(to)), F(-1), F(1)), t)

\* Quat::Slerp(from, to, t)
Slerp(from, to, t) ==
    SlerpShortest(GetNormalized(from), GetNormalized(to),
                  QuatDot(GetNormalized(from), GetNormalized(to)), t)

\* ------------------------------------------------------------------------
\* Vec3 free functions, Quat::FromToRotation, Quat::Angle, Quat::AngleRadians
\* ------------------------------------------------------------------------
\* xMath::Dot(const Vec3&, const Vec3&)
Dot(u, v) == FAdd(FAdd(FMul(u[0], v[0]), FMul(u[1], v[1])), FMul(u[2], v[2]))

\* xMath::Cross(const Vec3&, const Vec3&)
Cross(u, v) ==
    Vec3(FSub(FMul(u[1], v[2]), FMul(u[2], v[1])),
         FSub(FMul(u[2], v[0]), FMul(u[0], v[2])),
         FSub(FMul(u[0], v[1]), FMul(u[1], v[0])))

\* v * invLen, component by component
Vec3Times(v, invLen) == Vec3(FMul(v[0], invLen), FMul(v[1], invLen), FMul(v[2], invLen))

\* xMath::Normalize(const Vec3&): the zero vector for len2 <= 0
NormalizeVec3(v) ==
    IF FLe(Dot(v, v), F(0)) THEN Vec3(F(0), F(0), F(0))
    ELSE Vec3Times(v, FDiv(F(1), sqrtf(Dot(v, v))))

\* the axis of Quat::AngleAxis, divided by len when len > 0
AxisOver(axis, len) ==
    IF FGt(len, F(0)) THEN Vec3Times(axis, FDiv(F(1), len)) ELSE axis

\* {cosf(angle), vn.x * sinAngle, vn.y * sinAngle, vn.z * sinAngle}
AngleAxisOf(angle, vn) ==
    Quat(cosf(angle), FMul(vn[0], sinf(angle)), FMul(vn[1], sinf(angle)),
         FMul(vn[2], sinf(angle)))

\* Quat::AngleAxis(float angle, const Vec4& axis): angle in degrees
AngleAxis(angle, axis) ==
    AngleAxisOf(FMul(FMul(angle, DegToRad), Q(1, 2)), AxisOver(axis, sqrtf(Dot(axis, axis))))

\* the anti-parallel branch: the axis is Cross(unitFrom, (1, 0, 0)), or
\* Cross(unitFrom, (0, 1, 0)) when the squared length of the first is below 1e-6
HalfTurnAxis(unitFrom) ==
    IF FLt(Dot(Cross(unitFrom, Vec3(F(1), F(0), F(0))),
               Cross(unitFrom, Vec3(F(1), F(0), F(0)))), Q(1, 1000000))
    THEN Cross(unitFrom, Vec3(F(0), F(1), F(0)))
    ELSE Cross(unitFrom, Vec3(F(1), F(0), F(0)))

\* the general branch: Quat(Vec4(v, s)).GetNormalized()
FromToGeneral(unitFrom, unitTo) ==
    GetNormalized(
        [x |-> Cross(unitFrom, unitTo)[0], y |-> Cross(unitFrom, unitTo)[1],
         z |-> Cross(unitFrom, unitTo)[2],
         w |-> FAdd(sqrtf(FMul(Dot(unitFrom, unitFrom), Dot(unitTo, unitTo))),
                    Dot(unitFrom, unitTo))])

FromToUnit(unitFrom, unitTo) ==
    IF FLe(F(1), Dot(unitFrom, unitTo)) THEN Quat(F(1), F(0), F(0), F(0))
    ELSE IF FLe(Dot(unitFrom, unitTo), F(-1))
         THEN AngleAxis(F(180), NormalizeVec3(HalfTurnAxis(unitFrom)))
         ELSE FromToGeneral(unitFrom, unitTo)

\* Quat::FromToRotation(const Vec3& from, const Vec3& to)
FromToRotation(from, to) == FromToUnit(NormalizeVec3(from), NormalizeVec3(to))

\* 57.2957795f
RadToDeg == Q(5729578, 100000)

\* degrees > 180 ? 360 - degrees : degrees
FoldDegrees(degrees) == IF FGt(degrees, F(180)) THEN FSub(F(360), degrees) ELSE degrees

\* Quat::Angle(const Quat& a, const Quat& b), in degrees
Angle(qa, qb) ==
    FoldDegrees(FMul(FMul(acosf(QuatMul(qb, QuatGetInverse(qa)).w), F(2)), RadToDeg))

\* std::min(a, b): (b < a) ? b : a
stdmin(x, y) == IF FLt(y, x) THEN y ELSE x

\* std::max(a, b): (a < b) ? b : a
stdmax(x, y) == IF FLt(x, y) THEN y ELSE x

\* Quat::AngleRadians(const Quat& x)
AngleRadians(x) == FMul(F(2), acosf(stdmax(F(-1), stdmin(F(1), x.w))))

\* ------------------------------------------------------------------------
\* The legacy Matrix: rotation, TRS constructor, decomposition
\* ------------------------------------------------------------------------
\* the sixteen fields of Matrix::CreateRotation; wsign is 1 (the products
\* with rotation.w enter as written)
RotationFields(q, wsign) ==
    Mat4Rows(
        Vec4(FSub(F(1), FMul(F(2), FAdd(FMul(q.y, q.y), FMul(q.z, q.z)))),
             FMul(F(2), FAdd(FMul(q.x, q.y), FMul(wsign, FMul(q.z, q.w)))),
             FMul(F(2), FSub(FMul(q.z, q.x), FMul(wsign, FMul(q.y, q.w)))),
             F(0)),
        Vec4(FMul(F(2), FSub(FMul(q.x, q.y), FMul(wsign, FMul(q.z, q.w)))),
             FSub(F(1), FMul(F(2), FAdd(FMul(q.z, q.z), FMul(q.x, q.x)))),
             FMul(F(2), FAdd(FMul(q.y, q.z), FMul(wsign, FMul(q.x, q.w)))),
             F(0)),
        Vec4(FMul(F(2), FAdd(FMul(q.z, q.x), FMul(wsign, FMul(q.y, q.w)))),
             FMul(F(2), FSub(FMul(q.y, q.z), FMul(wsign, FMul(q.x, q.w)))),
             FSub(F(1), FMul(F(2), FAdd(FMul(q.y, q.y), FMul(q.x, q.x)))),
             F(0)),
        Vec4(F(0), F(0), F(0), F(1)))

\* a CreateRotation with the off-diagonal pairs exchanged (the transpose)
CreateRotationTransposed(rotation) == RotationFields(rotation, F(-1))

\* Matrix::CreateRotation(const Quat&)
CreateRotation(rotation) == RotationFields(rotation, F(1))

\* the branch of RotationMatrixToQuaternion: 0 for scale > 0, then 1, 2, 3
\* for m00, m11, m22 being taken as the largest diagonal element
RotationBranch(mRot) ==
    IF FGt(FAdd(FAdd(mRot[0][0], mRot[1][1]), mRot[2][2]), F(0)) THEN 0
    ELSE IF FLe(mRot[1][1], mRot[0][0]) /\ FLe(mRot[2][2], mRot[0][0]) THEN 1
    ELSE IF FGt(mRot[1][1], mRot[2][2]) THEN 2
    ELSE 3

\* the four terms 1 + m00 + m11 + m22, 1 + m00 - m11 - m22, 1 + m11 - m00 - m22
\* and 1 + m22 - m00 - m11, of which a branch takes the square root
RotationTerm(mRot, branch) ==
    IF branch = 0 THEN FAdd(FAdd(FAdd(mRot[0][0], mRot[1][1]), mRot[2][2]), F(1))
    ELSE IF branch = 1 THEN FSub(FSub(FAdd(F(1), mRot[0][0]), mRot[1][1]), mRot[2][2])
    ELSE IF branch = 2 THEN FSub(FSub(FAdd(F(1), mRot[1][1]), mRot[0][0]), mRot[2][2])
    ELSE FSub(FSub(FAdd(F(1), mRot[2][2]), mRot[0][0]), mRot[1][1])

\* the quaternion a branch builds from sqrt_ and half = 0.5f / sqrt_
RotationOfBranch(mRot, branch, sqrt_, half) ==
    IF branch = 0
    THEN Quat(FMul(sqrt_, Q(1, 2)), FMul(FSub(mRot[1][2], mRot[2][1]), half),
              FMul(FSub(mRot[2][0], mRot[0][2]), half),
              FMul(FSub(mRot[0][1], mRot[1][0]), half))
    ELSE IF branch = 1
    THEN Quat(FMul(FSub(mRot[1][2], mRot[2][1]), half), FMul(Q(1, 2), sqrt_),
              FMul(FAdd(mRot[0][1], mRot[1][0]), half),
              FMul(FAdd(mRot[0][2], mRot[2][0]), half))
    ELSE IF branch = 2
    THEN Quat(FMul(FSub(mRot[2][0], mRot[0][2]), half),
              FMul(FAdd(mRot[1][0], mRot[0][1]), half), FMul(Q(1, 2), sqrt_),
              FMul(FAdd(mRot[2][1], mRot[1][2]), half))
    ELSE Quat(FMul(FSub(mRot[0][1], mRot[1][0]), half),
              FMul(FAdd(mRot[2][0], mRot[0][2]), half),
              FMul(FAdd(mRot[2][1], mRot[1][2]), half), FMul(Q(1, 2), sqrt_))

\* the value a branch divides by: sqrt_
RotationRoot(mRot) == sqrt(RotationTerm(mRot, RotationBranch(mRot)))

\* Matrix::RotationMatrixToQuaternion(const Matrix&)
RotationMatrixToQuaternion(mRot) ==
    RotationOfBranch(mRot, RotationBranch(mRot), RotationRoot(mRot),
                     FDiv(Q(1, 2), RotationRoot(mRot)))

\* a TRS constructor that scales the columns of the rotation
MatrixTRSColumnScaled(translation, rotation, scale) ==
    Mat4Rows(
        Vec4(FMul(scale[0], CreateRotation(rotation)[0][0]),
             FMul(scale[1], CreateRotation(rotation)[0][1]),
             FMul(scale[2], CreateRotation(rotation)[0][2]), F(0)),
        Vec4(FMul(scale[0], CreateRotation(rotation)[1][0]),
             FMul(scale[1], CreateRotation(rotation)[1][1]),
             FMul(scale[2], CreateRotation(rotation)[1][2]), F(0)),
        Vec4(FMul(scale[0], CreateRotation(rotation)[2][0]),
             FMul(scale[1], CreateRotation(rotation)[2][1]),
             FMul(scale[2], CreateRotation(rotation)[2][2]), F(0)),
        Vec4(translation[0], translation[1], translation[2], F(1)))

\* Matrix::Matrix(const Vec3 &translation, const Quat &rotation, const Vec3 &scale):
\* row i of the rotation times scale[i], the translation in m30, m31, m32
MatrixTRS(translation, rotation, scale) ==
    Mat4Rows(
        Vec4(FMul(scale[0], CreateRotation(rotation)[0][0]),
             FMul(scale[0], CreateRotation(rotation)[0][1]),
             FMul(scale[0], CreateRotation(rotation)[0][2]), F(0)),
        Vec4(FMul(scale[1], CreateRotation(rotation)[1][0]),
             FMul(scale[1], CreateRotation(rotation)[1][1]),
             FMul(scale[1], CreateRotation(rotation)[1][2]), F(0)),
        Vec4(FMul(scale[2], CreateRotation(rotation)[2][0]),
             FMul(scale[2], CreateRotation(rotation)[2][1]),
             FMul(scale[2], CreateRotation(rotation)[2][2]), F(0)),
        Vec4(translation[0], translation[1], translation[2], F(1)))

\* Matrix::GetTranslation: {m30, m31, m32}
GetTranslation(m) == Vec3(m[3][0], m[3][1], m[3][2])

\* sign(x): (0 < x) - (x < 0)
sign(x) == (IF FLt(F(0), x) THEN 1 ELSE 0) - (IF FLt(x, F(0)) THEN 1 ELSE 0)

\* one component of Matrix::GetScale: xs * sqrt(mi0*mi0 + mi1*mi1 + mi2*mi2)
\* with xs = (sign(mi0 * mi1 * mi2 * mi3) < 0) ? -1 : 1
RowScale(m, i) ==
    FMul(F(IF sign(FMul(FMul(FMul(m[i][0], m[i][1]), m[i][2]), m[i][3])) < 0 THEN -1 ELSE 1),
         sqrt(FAdd(FAdd(FMul(m[i][0], m[i][0]), FMul(m[i][1], m[i][1])),
                   FMul(m[i][2], m[i][2]))))

\* Matrix::GetScale
GetScale(m) == Vec3(RowScale(m, 0), RowScale(m, 1), RowScale(m, 2))

\* the local normalized of GetRotation: row i of m divided by scale[i]
NormalizedByScale(m, scale) ==
    Mat4Rows(Vec4(FDiv(m[0][0], scale[0]), FDiv(m[0][1], scale[0]),
                  FDiv(m[0][2], scale[0]), F(0)),
             Vec4(FDiv(m[1][0], scale[1]), FDiv(m[1][1], scale[1]),
                  FDiv(m[1][2], scale[1]), F(0)),
             Vec4(FDiv(m[2][0], scale[2]), FDiv(m[2][1], scale[2]),
                  FDiv(m[2][2], scale[2]), F(0)),
             Vec4(F(0), F(0), F(0), F(1)))

\* Matrix::GetRotation: the identity when a scale component is 0
GetRotation(m) ==
    IF FEq(GetScale(m)[0], F(0)) \/ FEq(GetScale(m)[1], F(0)) \/ FEq(GetScale(m)[2], F(0))
    THEN QuatIdentity
    ELSE RotationMatrixToQuaternion(NormalizedByScale(m, GetScale(m)))

\* Matrix::Decompose(scale, rotation, translation): the three outputs
MatrixDecompose(m) ==
    [translation |-> GetTranslation(m), scale |-> GetScale(m), rotation |-> GetRotation(m)]

\* ------------------------------------------------------------------------
\* math_utils.h: RoundDown, RoundUp, power_of_two_next
\* ------------------------------------------------------------------------
\* x / y on int: the quotient truncated towards zero (y # 0)
IntDiv(x, y) == SgnI(x) * SgnI(y) * (AbsI(x) \div AbsI(y))

\* x % y on int: the remainder has the sign of x (y # 0)
IntRem(x, y) == x - IntDiv(x, y) * y

\* RoundDown<int>(x, fac)
RoundDown(x, fac) == IF fac = 0 THEN x ELSE x - IntRem(x, fac)

\* RoundUp<int>(x, fac)
RoundUp(x, fac) == IF fac = 0 THEN x ELSE IntDiv(x + (fac - 1), fac) * fac

\* x | y on uint32_t
RECURSIVE BitOr(_, _)
BitOr(x, y) ==
    IF x = 0 THEN y
    ELSE IF y = 0 THEN x
    ELSE (IF x % 2 = 1 \/ y % 2 = 1 THEN 1 ELSE 0) + 2 * BitOr(x \div 2, y \div 2)

\* x |= x >> n, for n = 1, 2, 4, 8, 16 in turn
RECURSIVE SmearFrom(_, _)
SmearFrom(x, n) == IF n > 16 THEN x ELSE SmearFrom(BitOr(x, x \div (2 ^ n)), 2 * n)

\* power_of_two_next(uint32_t x), for x below 2^30 (x << 1 does not wrap);
\* 'return x++' returns the value x has before the increment
power_of_two_next(x) ==
    IF x < 2 THEN 2
    ELSE IF x % 2 = 0 THEN 2 * x
    ELSE SmearFrom(x - 1, 1)

\* ------------------------------------------------------------------------
\* Gradient
\* ------------------------------------------------------------------------
\* Color(r, g, b, a)
Color(cr, cg, cb, ca) == [r |-> cr, g |-> cg, b |-> cb, a |-> ca]

\* xMath::Lerp(from, to, t): t is clamped to [0, 1]
Lerp(from, to, t) ==
    FAdd(FMul(from, FSub(F(1), clamp(t, F(0), F(1)))), FMul(to, clamp(t, F(0), F(1))))

\* Color::Lerp(from, to, t)
ColorLerp(from, to, t) ==
    Color(Lerp(from.r, to.r, t), Lerp(from.g, to.g, t), Lerp(from.b, to.b, t),
          Lerp(from.a, to.a, t))

\* the interpolation between keys[i - 1] and keys[i] (left and right)
Between(left, right, position) ==
    ColorLerp(left.value, right.value,
              stdmax(F(0), stdmin(F(1), FDiv(FSub(position, left.position),
                                             FSub(right.position, left.position)))))

\* the loop of Gradient::Evaluate from index i on (keys[n] here is keys[n - 1]
\* of the std::vector), and the return after it
RECURSIVE EvaluateFrom(_, _, _)
EvaluateFrom(keys, position, i) ==
    IF i > Len(keys)
    THEN (IF FLt(position, F(0)) THEN keys[1].value ELSE keys[Len(keys)].value)
    ELSE IF i > 1 /\ FLe(keys[i - 1].position, position) /\ FLt(position, keys[i].position)
         THEN Between(keys[i - 1], keys[i], position)
         ELSE EvaluateFrom(keys, position, i + 1)

\* Gradient::Evaluate(float position), on the keys of the gradient
Evaluate(keys, position) ==
    IF Len(keys) = 0 THEN Color(F(0), F(0), F(0), F(0))
    ELSE IF Len(keys) = 1 THEN keys[1].value
    ELSE EvaluateFrom(keys, position, 1)

\* ------------------------------------------------------------------------
\* Transforms::Decompose
\* ------------------------------------------------------------------------
\* epsilon<float>() == std::numeric_limits<float>::epsilon() == 2^-23
epsilon == <<1, 8388608>>

\* epsilonEqual(a, b, eps): |a - b| <= eps
epsilonEqual(a, b, eps) == FLe(fabs(FSub(a, b)), eps)

\* x*x + y*y + z*z, in the order the code adds
Len2(v) == FAdd(FAdd(FMul(v[0], v[0]), FMul(v[1], v[1])), FMul(v[2], v[2]))

\* Vec3 Scale(const Vec3 &vector, float desiredLength)
Scale(vector, desiredLength) ==
    LET mag == sqrt(Len2(vector))
    IN IF epsilonEqual(mag, F(0), epsilon)
       THEN Vec3(F(0), F(0), F(0))
       ELSE [i \in 0..2 |-> FDiv(FMul(vector[i], desiredLength), mag)]

\* the three early returns of Decompose, taken on its local copy
Rejects(LocalMatrix) ==
    \/ epsilonEqual(LocalMatrix[3][3], F(0), epsilon)
    \/ ~epsilonEqual(LocalMatrix[3][3], F(1), <<1, 100000>>)
    \/ ~( /\ epsilonEqual(LocalMatrix[0][3], F(0), epsilon)
          /\ epsilonEqual(LocalMatrix[1][3], F(0), epsilon)
          /\ epsilonEqual(LocalMatrix[2][3], F(0), epsilon) )

\* static int Next[3] = { 1, 2, 0 }
NextAxis(i) == (i + 1) % 3

\* Row[i][j] = LocalMatrix[i][j] for i, j < 3
UpperLeftRows(LocalMatrix) == [i \in 0..2 |-> [j \in 0..2 |-> LocalMatrix[i][j]]]

\* scale.x, scale.y, scale.z: the length of each row, as read from the matrix
RowLengths(Row) == Vec3(sqrt(Len2(Row[0])), sqrt(Len2(Row[1])), sqrt(Len2(Row[2])))

\* Row[i] = Scale(Row[i], 1) for each of the three rows, none made orthogonal
NormalizedRows(Row) == [i \in 0..2 |-> Scale(Row[i], F(1))]

\* the branch trace > 0
RotationTracePositive(Row, trace) ==
    LET root == sqrt(FAdd(trace, F(1)))
        half == FDiv(Q(1, 2), root)
    IN Quat(FMul(Q(1, 2), root),
            FMul(half, FSub(Row[1][2], Row[2][1])),
            FMul(half, FSub(Row[2][0], Row[0][2])),
            FMul(half, FSub(Row[0][1], Row[1][0])))

\* the index i of the branch trace <= 0: the largest diagonal element
LargestDiagonal(Row) ==
    IF FGt(Row[1][1], Row[0][0])
    THEN (IF FGt(Row[2][2], Row[1][1]) THEN 2 ELSE 1)
    ELSE (IF FGt(Row[2][2], Row[0][0]) THEN 2 ELSE 0)

\* the branch trace <= 0 with i chosen, j = Next[i], k = Next[j]
RotationLargestDiagonal(Row, i, j, k) ==
    LET root == sqrt(FAdd(FSub(FSub(Row[i][i], Row[j][j]), Row[k][k]), F(1)))
        half == FDiv(Q(1, 2), root)
        q == [n \in 0..2 |->
                 IF n = i THEN FMul(Q(1, 2), root)
                 ELSE IF n = j THEN FMul(half, FAdd(Row[i][j], Row[j][i]))
                 ELSE FMul(half, FAdd(Row[i][k], Row[k][i]))]
    IN Quat(FMul(half, FSub(Row[j][k], Row[k][j])), q[0], q[1], q[2])

\* the quaternion of the normalised rows: the trace-based four-branch conversion
RotationOfRows(Row, trace, i) ==
    IF FGt(trace, F(0))
    THEN RotationTracePositive(Row, trace)
    ELSE RotationLargestDiagonal(Row, i, NextAxis(i), NextAxis(NextAxis(i)))

\* the outputs of a successful Decompose, from the normalised rows
Outputs(translation, scale, Row) ==
    [ok |-> TRUE, translation |-> translation, scale |-> scale,
     rotation |-> RotationOfRows(Row, FAdd(FAdd(Row[0][0], Row[1][1]), Row[2][2]),
                                 LargestDiagonal(Row))]

\* Decompose after its early returns: translation, the three row lengths and
\* the quaternion of the normalised rows (SEDX_DEBUG is defined nowhere, so
\* the determinant-sign check is not compiled)
Extract(LocalMatrix) ==
    Outputs(Vec3FromVec4(LocalMatrix[3]),
            RowLengths(UpperLeftRows(LocalMatrix)),
            NormalizedRows(UpperLeftRows(LocalMatrix)))

\* a Decompose without its early returns
DecomposeUnguarded(transform, translation, rotation, scale) ==
    Extract(Mat4Copy(transform))

\* Transforms::Decompose(transform, translation, rotation, scale): the result
\* and the three output parameters, which an early return leaves as they were
Decompose(transform, translation, rotation, scale) ==
    LET LocalMatrix == Mat4Copy(transform)
    IN IF Rejects(LocalMatrix)
       THEN [ok |-> FALSE, translation |-> translation, rotation |-> rotation, scale |-> scale]
       ELSE Extract(LocalMatrix)

\* ------------------------------------------------------------------------
\* Inputs of the client program
\* ------------------------------------------------------------------------
Translations == {Vec3(F(x), F(-2), F(3)) : x \in 0..MaxT}

\* scales, among them a zero component (x = 0) and a mirroring one (x = -1)
Scales == {Vec3(F(x), F(y), F(2)) : x \in -1..MaxS, y \in {1, 3}}

\* unit quaternions on all four branches of the trace test, and two non-unit
Rotations ==
    { QuatIdentity,
      Quat(F(0), F(1), F(0), F(0)),
      Quat(Q(4, 5), F(0), F(0), Q(3, 5)),
      Quat(Q(1, 2), Q(1, 2), Q(1, 2), Q(1, 2)),
      Quat(F(0), Q(3, 5), Q(4, 5), F(0)),
      Quat(F(1), F(1), F(0), F(0)) }

\* matrices given cell by cell: diagonal, duplicated rows, sheared, with a
\* translation in the bottom row or in column 3, projective, and general
Cells ==
    {Mat4Diagonal(F(c)) : c \in 0..MaxCell}
    \cup {Mat4Rows(Vec4(F(1), F(c), F(0), F(0)), Vec4(F(1), F(c), F(0), F(0)),
                   Vec4(F(0), F(1), F(0), F(0)), Vec4(F(0), F(0), F(1), F(1)))
             : c \in 0..MaxCell}
    \cup {Mat4Rows(Vec4(F(1), F(0), F(0), F(0)), Vec4(F(0), F(1), F(0), F(0)),
                   Vec4(F(c), F(0), F(1), F(1)), Vec4(F(c), F(0), F(1), F(1)))
             : c \in 0..MaxCell}
    \cup {Mat4Rows(Vec4(F(1), F(0), F(0), F(0)), Vec4(F(c), F(1), F(0), F(0)),
                   Vec4(F(0), F(0), F(1), F(0)), Vec4(F(0), F(0), F(0), F(1)))
             : c \in 1..MaxCell}
    \cup {Mat4Rows(Vec4(F(1), F(0), F(0), F(0)), Vec4(F(0), F(1), F(0), F(0)),
                   Vec4(F(0), F(0), F(1), F(0)), Vec4(F(c), F(2), F(3), F(1)))
             : c \in 1..MaxCell}
    \cup {Mat4Rows(Vec4(F(1), F(0), F(0), F(c)), Vec4(F(0), F(1), F(0), F(0)),
                   Vec4(F(0), F(0), F(1), F(0)), Vec4(F(0), F(0), F(0), F(1)))
             : c \in 1..MaxCell}
    \cup {Mat4Rows(Vec4(F(1), F(0), F(0), F(0)), Vec4(F(0), F(-1), F(0), F(0)),
                   Vec4(F(0), F(0), F(c), F(-1)), Vec4(F(0), F(0), F(1), F(0)))
             : c \in 1..MaxCell}
    \cup {Mat4Rows(Vec4(F(1), F(2), F(0), F(0)), Vec4(F(0), F(1), F(c), F(0)),
                   Vec4(F(0), F(0), F(1), F(1)), Vec4(F(1), F(0), F(0), F(2)))
             : c \in 0..MaxCell}

\* the points the client transforms
Points == {Vec3(F(1), F(2), F(3)), Vec3(F(0), F(0), F(0)), Vec3(F(-1), F(0), Q(1, 2))}

\* the scalars of the compound assignments
Scalars == {F(2), Q(1, 2)}

\* the quaternions of the client: the rotations above, the zero quaternion, a
\* negative multiple of the identity, a unit quaternion with negative w and
\* one whose largest component is z
Quats ==
    Rotations \cup {Quat(F(0), F(0), F(0), F(0)), Quat(F(-2), F(0), F(0), F(0)),
                    Quat(Q(-3, 5), Q(4, 5), F(0), F(0)),
                    Quat(F(0), F(0), Q(3, 5), Q(4, 5))}

\* the factors k of k * q
QuatScalars == {F(1), F(2), F(-3), Q(1, 2)}

\* Euler angles in radians, (X, Y, Z)
EulerAngles ==
    {Vec3(F(0), F(0), F(0)), Vec3(F(1), F(0), F(0)), Vec3(F(0), F(1), F(0)),
     Vec3(F(0), F(0), F(-1)), Vec3(F(1), F(2), F(-1))}

\* Euler angles in degrees, (X, Y, Z)
EulerDegreeAngles ==
    {Vec3(F(0), F(0), F(0)), Vec3(F(180), F(0), F(0)), Vec3(F(0), F(180), F(0)),
     Vec3(F(180), F(0), F(180))}

\* interpolation parameters
SlerpTs == {F(0), Q(1, 2), F(1)}

\* the vectors of FromToRotation(from, to)
Directions ==
    {Vec3(F(1), F(0), F(0)), Vec3(F(0), F(1), F(0)), Vec3(F(0), F(0), F(-2)),
     Vec3(F(2), F(2), F(1)), Vec3(F(1), F(2), F(0)), Vec3(F(1), F(1), F(2))}

Vec3Neg(v) == Vec3(FNeg(v[0]), FNeg(v[1]), FNeg(v[2]))

\* the integers x of RoundDown(x, fac) and RoundUp(x, fac) are -MaxInt..MaxInt
MaxInt == 17

\* the factors fac are 0..MaxFac
MaxFac == 8

\* the arguments of power_of_two_next are 0..MaxPow
MaxPow == 40

\* the positions at which the client puts gradient keys
KeyPositions == {F(-2), F(-1), F(0), Q(1, 4), F(1), F(2)}

\* a gradient has up to MaxKeys keys
MaxKeys == 3

\* Gradient::Key{value, position}: the key at p has a colour of its own
Key(p) == [value |-> Color(p, F(1), F(0), F(1)), position |-> p]

\* the keys at the positions S, in increasing position order
RECURSIVE SortedKeys(_)
SortedKeys(S) ==
    IF S = {} THEN <<>>
    ELSE <<Key(CHOOSE p \in S : \A q \in S : FLe(p, q))>>
             \o SortedKeys(S \ {CHOOSE p \in S : \A q \in S : FLe(p, q)})

\* the key lists of the client's gradients
Gradients == {SortedKeys(S) : S \in {T \in SUBSET KeyPositions : Cardinality(T) <= MaxKeys}}

\* the positions at which the client evaluates a gradient
EvaluatePositions == KeyPositions \cup {F(-3), Q(1, 2), F(3)}

\* the scales of the legacy TRS constructor: those of Compose and a fractional one
MatrixScales == Scales \cup {Vec3(Q(1, 2), F(3), Q(3, 2))}

\* the quaternions of the legacy TRS constructor: unit ones, the zero one and
\* a multiple of the identity; Quat(1, 1, 0, 0) gives rows of length sqrt(5),
\* whose rounded quotients leave the range of the arithmetic
MatrixRotations == Quats \ {Quat(F(1), F(1), F(0), F(0))}

\* ------------------------------------------------------------------------
\* The client program
\* ------------------------------------------------------------------------
VARIABLES
    cur,      \* the client's Mat4 variable
    qcur,     \* the client's Quat variable
    origin,   \* what the client works on: "default", "cells", "compose", "quat",
              \* or "free" for the client that constructs nothing more and
              \* calls the static and free functions
    muts,     \* how many in-place mutators have been called
    trs,      \* the arguments of the Compose call that made cur
    op,       \* the last library call
    a,        \* its first operand, or the object it was called on as it was before
    b,        \* its second operand
    k,        \* its float operand, or the float the client computes from r
    r,        \* the value it returned
    out       \* the client's Decompose outputs, and what the last Decompose returned

vars == <<cur, qcur, origin, muts, trs, op, a, b, k, r, out>>

\* how many in-place mutators the client applies to its object
MaxMut == 1

NoTRS == [translation |-> Vec3(F(0), F(0), F(0)), rotation |-> QuatIdentity,
          scale |-> Vec3(F(1), F(1), F(1))]

NoOut == [ok |-> FALSE, translation |-> Vec3(F(0), F(0), F(0)),
          rotation |-> QuatIdentity, scale |-> Vec3(F(0), F(0), F(0))]

\* the in-place calls, after which the object is a new value
Mutators ==
    {"Transpose", "Invert", "AddAssign", "SubAssign", "MulAssignScalar", "DivAssignScalar",
     "MulAssign", "QuatMulAssign", "Normalize", "SetEulerDegrees"}

\* the calls the client makes on the value its previous call returned
Chained ==
    {<<"GetInverse", "Multiply">>, <<"GetTranspose", "GetTransposeAgain">>,
     <<"QuatGetInverse", "QuatMul">>}

\* the client calls the library on an object it has just built or changed in
\* place, or on what its previous call returned
CanCall(name) ==
    \/ op \in {"none", "Construct", "Compose", "ConstructQuat"} \cup Mutators
    \/ <<op, name>> \in Chained

Init ==
    /\ cur = Mat4Zero
    /\ qcur = QuatIdentity
    /\ origin \in {"default", "free"}
    /\ muts = 0
    /\ trs = NoTRS
    /\ op = "none"
    /\ a = Mat4Zero
    /\ b = Mat4Zero
    /\ k = F(0)
    /\ r = Mat4Zero
    /\ out = NoOut

\* Mat4 cur({...}): construction from sixteen cells, once, before the calls
Construct(m) ==
    /\ origin = "default"
    /\ cur' = m
    /\ origin' = "cells"
    /\ trs' = NoTRS
    /\ op' = "Construct"
    /\ a' = Mat4Zero
    /\ b' = Mat4Zero
    /\ k' = F(0)
    /\ r' = m
    /\ out' = NoOut
    /\ UNCHANGED <<qcur, muts>>

\* Mat4 cur = Transforms::Compose(t, q, s), once, before the calls
CallCompose(t, q, s) ==
    /\ origin = "default"
    /\ cur' = Compose(t, q, s)
    /\ origin' = "compose"
    /\ trs' = [translation |-> t, rotation |-> q, scale |-> s]
    /\ op' = "Compose"
    /\ a' = Mat4Zero
    /\ b' = Mat4Zero
    /\ k' = F(0)
    /\ r' = cur'
    /\ out' = NoOut
    /\ UNCHANGED <<qcur, muts>>

\* ok = Transforms::Decompose(cur, translation, rotation, scale)
CallDecompose ==
    /\ origin # "quat"
    /\ CanCall("Decompose")
    /\ op' = "Decompose"
    /\ a' = cur
    /\ b' = Mat4Zero
    /\ k' = F(0)
    /\ r' = Mat4Zero
    /\ out' = Decompose(cur, out.translation, out.rotation, out.scale)
    /\ UNCHANGED <<cur, qcur, origin, muts, trs>>

\* Mat4 r(cur): the copy constructor
CallCopy ==
    /\ origin # "quat"
    /\ CanCall("Copy")
    /\ op' = "Copy"
    /\ a' = cur
    /\ b' = Mat4Zero
    /\ k' = F(0)
    /\ r' = Mat4Copy(cur)
    /\ UNCHANGED <<cur, qcur, origin, muts, trs, out>>

\* r = cur.GetInverse()
CallGetInverse ==
    /\ origin # "quat"
    /\ CanCall("GetInverse")
    /\ op' = "GetInverse"
    /\ a' = cur
    /\ b' = Mat4Zero
    /\ k' = F(0)
    /\ r' = GetInverse(cur)
    /\ UNCHANGED <<cur, qcur, origin, muts, trs, out>>

\* r = Mat4::GetAdjoint(cur) / Mat4::GetDeterminant(cur, 4), next to cur.GetInverse()
CallGetAdjoint ==
    /\ origin # "quat"
    /\ CanCall("GetAdjoint")
    /\ op' = "GetAdjoint"
    /\ a' = cur
    /\ b' = GetInverse(cur)
    /\ k' = GetDeterminant(cur, 4)
    /\ r' = Mat4DivScalar(GetAdjoint(cur), GetDeterminant(cur, 4))
    /\ UNCHANGED <<cur, qcur, origin, muts, trs, out>>

\* the matrices the client can pass to Multiply: its variable, the factories'
\* results and the inverse it has just computed
Operands == {cur, Identity} \cup (IF op = "GetInverse" THEN {r} ELSE {})

\* r = lhs * rhs
CallMultiply(lhs, rhs) ==
    /\ origin # "quat"
    /\ CanCall("Multiply")
    /\ op' = "Multiply"
    /\ a' = lhs
    /\ b' = rhs
    /\ k' = F(0)
    /\ r' = Multiply(lhs, rhs)
    /\ UNCHANGED <<cur, qcur, origin, muts, trs, out>>

\* r = cur.GetTranspose()
CallGetTranspose ==
    /\ origin # "quat"
    /\ CanCall("GetTranspose")
    /\ op' = "GetTranspose"
    /\ a' = cur
    /\ b' = Mat4Zero
    /\ k' = F(0)
    /\ r' = GetTranspose(cur)
    /\ UNCHANGED <<cur, qcur, origin, muts, trs, out>>

\* r = r.GetTranspose(), on the transpose just computed; b keeps the original
CallGetTransposeAgain ==
    /\ op = "GetTranspose"
    /\ op' = "GetTransposeAgain"
    /\ a' = r
    /\ b' = a
    /\ k' = F(0)
    /\ r' = GetTranspose(r)
    /\ UNCHANGED <<cur, qcur, origin, muts, trs, out>>

\* r = cur * v, the Vec3 overload of Mat4
CallMulVec3(v) ==
    /\ origin # "quat"
    /\ CanCall("MulVec3")
    /\ op' = "MulVec3"
    /\ a' = cur
    /\ b' = v
    /\ k' = F(0)
    /\ r' = Mat4MulVec3(cur, v)
    /\ UNCHANGED <<cur, qcur, origin, muts, trs, out>>

\* r = Matrix(cur[0][0], ..., cur[3][3]) * v, the Vec3 overload of the legacy Matrix
CallMatrixMulVec3(v) ==
    /\ origin # "quat"
    /\ CanCall("MatrixMulVec3")
    /\ op' = "MatrixMulVec3"
    /\ a' = Matrix(cur)
    /\ b' = v
    /\ k' = F(0)
    /\ r' = MatrixMulVec3(Matrix(cur), v)
    /\ UNCHANGED <<cur, qcur, origin, muts, trs, out>>

\* what an in-place call on cur leaves in the state, r being the value returned
Mutated(name, newCur, rhs, scalar, returned) ==
    /\ origin = "cells"
    /\ CanCall(name)
    /\ muts < MaxMut
    /\ muts' = muts + 1
    /\ op' = name
    /\ a' = cur
    /\ b' = rhs
    /\ k' = scalar
    /\ cur' = newCur
    /\ r' = returned
    /\ UNCHANGED <<qcur, origin, trs, out>>

\* cur.Transpose(): *this = GetTranspose(*this)
CallTranspose == Mutated("Transpose", GetTranspose(cur), Mat4Zero, F(0), Mat4Zero)

\* cur.Invert(): *this = GetInverse(*this)
CallInvert == Mutated("Invert", GetInverse(cur), Mat4Zero, F(0), Mat4Zero)

\* r = (cur += rhs): *this = *this + rhs; return *this, by value
CallAddAssign(rhs) ==
    Mutated("AddAssign", Mat4Add(cur, rhs), rhs, F(0), Mat4Copy(Mat4Add(cur, rhs)))

\* r = (cur -= rhs)
CallSubAssign(rhs) ==
    Mutated("SubAssign", Mat4Sub(cur, rhs), rhs, F(0), Mat4Copy(Mat4Sub(cur, rhs)))

\* r = (cur *= s)
CallMulAssignScalar(s) ==
    Mutated("MulAssignScalar", Mat4MulScalar(cur, s), Mat4Zero, s,
            Mat4Copy(Mat4MulScalar(cur, s)))

\* r = (cur /= s)
CallDivAssignScalar(s) ==
    Mutated("DivAssignScalar", Mat4DivScalar(cur, s), Mat4Zero, s,
            Mat4Copy(Mat4DivScalar(cur, s)))

\* r = (cur *= rhs)
CallMulAssign(rhs) ==
    Mutated("MulAssign", Multiply(cur, rhs), rhs, F(0), Mat4Copy(Multiply(cur, rhs)))

\* Quat qcur(w, x, y, z), once, before the calls
ConstructQuat(q) ==
    /\ origin = "default"
    /\ qcur' = q
    /\ origin' = "quat"
    /\ op' = "ConstructQuat"
    /\ a' = Mat4Zero
    /\ b' = Mat4Zero
    /\ k' = F(0)
    /\ r' = q
    /\ UNCHANGED <<cur, muts, trs, out>>

\* what a call on qcur leaves in the state
QuatCalled(name, newQ, rhs, scalar, returned) ==
    /\ origin = "quat"
    /\ CanCall(name)
    /\ name \in Mutators => muts < MaxMut
    /\ muts' = IF name \in Mutators THEN muts + 1 ELSE muts
    /\ op' = name
    /\ a' = qcur
    /\ b' = rhs
    /\ k' = scalar
    /\ qcur' = newQ
    /\ r' = returned
    /\ UNCHANGED <<cur, origin, trs, out>>

\* the quaternions the client can pass: its inputs and the inverse just computed
QuatOperands == Quats \cup (IF op = "QuatGetInverse" THEN {r} ELSE {})

\* r = qcur * rhs
CallQuatMul(rhs) == QuatCalled("QuatMul", qcur, rhs, F(0), QuatMul(qcur, rhs))

\* r = (qcur *= rhs): returns *this by reference
CallQuatMulAssign(rhs) ==
    QuatCalled("QuatMulAssign", QuatMulAssign(qcur, rhs), rhs, F(0), QuatMulAssign(qcur, rhs))

\* r = qcur.GetNormalized()
CallGetNormalized == QuatCalled("GetNormalized", qcur, Mat4Zero, F(0), GetNormalized(qcur))

\* qcur.Normalize()
CallNormalize == QuatCalled("Normalize", Normalize(qcur), Mat4Zero, F(0), Mat4Zero)

\* r = qcur.Conjugate()
CallConjugate == QuatCalled("Conjugate", qcur, Mat4Zero, F(0), Conjugate(qcur))

\* r = qcur.GetInverse()
CallQuatGetInverse == QuatCalled("QuatGetInverse", qcur, Mat4Zero, F(0), QuatGetInverse(qcur))

\* r = Quat::ToMatrix(f * qcur)
CallToMatrix(f) == QuatCalled("ToMatrix", qcur, Mat4Zero, f, ToMatrix(QuatScale(f, qcur)))

\* r = Quat::EulerRadians(e.x, e.y, e.z)
CallEulerRadians(e) == QuatCalled("EulerRadians", qcur, e, F(0), EulerRadians(e[0], e[1], e[2]))

\* r = Quat::EulerDegrees(e.x, e.y, e.z)
CallEulerDegrees(e) == QuatCalled("EulerDegrees", qcur, e, F(0), EulerDegrees(e[0], e[1], e[2]))

\* qcur.SetEulerDegrees(e.x, e.y, e.z)
CallSetEulerDegrees(e) ==
    QuatCalled("SetEulerDegrees", SetEulerDegrees(e[0], e[1], e[2]), e, F(0), Mat4Zero)

\* r = Quat::Slerp(qcur, to, t)
CallSlerp(to, t) == QuatCalled("Slerp", qcur, to, t, Slerp(qcur, to, t))

\* what a call of a static or free function, made by the client that
\* constructs no Mat4 and no Quat of its own, leaves in the state
FreeCalled(name, lhs, rhs, scalar, returned) ==
    /\ origin = "free"
    /\ op = "none"
    /\ op' = name
    /\ a' = lhs
    /\ b' = rhs
    /\ k' = scalar
    /\ r' = returned
    /\ UNCHANGED <<cur, qcur, origin, muts, trs, out>>

\* r = Quat::FromToRotation(from, to); k = Quat::Angle(Quat(), r)
CallFromToRotation(from, to) ==
    FreeCalled("FromToRotation", from, to, Angle(QuatIdentity, FromToRotation(from, to)),
               FromToRotation(from, to))

\* r = Matrix::RotationMatrixToQuaternion(Matrix::CreateRotation(qcur));
\* Matrix(translation, rotation, scale).Decompose(scale, rotation, translation):
\* a holds the three arguments, b the matrix, r the three outputs
CallMatrixDecompose(translation, rotation, scale) ==
    FreeCalled("MatrixDecompose",
               [translation |-> translation, rotation |-> rotation, scale |-> scale],
               MatrixTRS(translation, rotation, scale), F(0),
               MatrixDecompose(MatrixTRS(translation, rotation, scale)))

\* Transforms::Decompose(qcur.ToMatrix(), translation, rotation, scale)
CallDecomposeRotation ==
    /\ origin = "quat"
    /\ CanCall("DecomposeRotation")
    /\ op' = "DecomposeRotation"
    /\ a' = qcur
    /\ b' = ToMatrix(qcur)
    /\ k' = F(0)
    /\ out' = Decompose(ToMatrix(qcur), out.translation, out.rotation, out.scale)
    /\ r' = Decompose(ToMatrix(qcur), out.translation, out.rotation, out.scale).rotation
    /\ UNCHANGED <<cur, qcur, origin, muts, trs>>

\* b is the matrix in between
CallRotationRoundTrip ==
    QuatCalled("RotationRoundTrip", qcur, CreateRotation(qcur), F(0),
               RotationMatrixToQuaternion(CreateRotation(qcur)))

\* r = RoundDown(x, fac)
CallRoundDown(x, fac) == FreeCalled("RoundDown", x, fac, F(0), RoundDown(x, fac))

\* r = RoundUp(x, fac)
CallRoundUp(x, fac) == FreeCalled("RoundUp", x, fac, F(0), RoundUp(x, fac))

\* r = power_of_two_next(x)
CallPowerOfTwoNext(x) == FreeCalled("power_of_two_next", x, Mat4Zero, F(0), power_of_two_next(x))

\* r = Gradient(keys).Evaluate(position)
CallEvaluate(keys, position) ==
    FreeCalled("Evaluate", keys, Mat4Zero, position, Evaluate(keys, position))

\* r = Quat::AngleRadians(qcur)
CallAngleRadians == QuatCalled("AngleRadians", qcur, Mat4Zero, F(0), AngleRadians(qcur))

Next ==
    \/ \E m \in Cells : Construct(m)
    \/ \E t \in Translations, q \in Rotations, s \in Scales : CallCompose(t, q, s)
    \/ CallDecompose
    \/ CallCopy
    \/ CallGetInverse
    \/ CallGetAdjoint
    \/ \E lhs \in Operands, rhs \in Operands : CallMultiply(lhs, rhs)
    \/ CallGetTranspose
    \/ CallGetTransposeAgain
    \/ \E v \in Points : CallMulVec3(v)
    \/ \E v \in Points : CallMatrixMulVec3(v)
    \/ CallTranspose
    \/ CallInvert
    \/ \E rhs \in {cur, Identity} : CallAddAssign(rhs)
    \/ \E rhs \in {cur, Identity} : CallSubAssign(rhs)
    \/ \E s \in Scalars : CallMulAssignScalar(s)
    \/ \E s \in Scalars : CallDivAssignScalar(s)
    \/ \E rhs \in {cur, Identity} : CallMulAssign(rhs)
    \/ \E q \in Quats : ConstructQuat(q)
    \/ \E rhs \in QuatOperands : CallQuatMul(rhs)
    \/ \E rhs \in Quats : CallQuatMulAssign(rhs)
    \/ CallGetNormalized
    \/ CallNormalize
    \/ CallConjugate
    \/ CallQuatGetInverse
    \/ \E f \in QuatScalars : CallToMatrix(f)
    \/ \E e \in EulerAngles : CallEulerRadians(e)
    \/ \E e \in EulerDegreeAngles : CallEulerDegrees(e)
    \/ \E from \in Directions :
           \E to \in {from, Vec3Neg(from), Vec3(F(0), F(1), F(0))} :
               CallFromToRotation(from, to)
    \/ \E x \in -MaxInt..MaxInt, fac \in 0..MaxFac : CallRoundDown(x, fac)
    \/ \E x \in -MaxInt..MaxInt, fac \in 0..MaxFac : CallRoundUp(x, fac)
    \/ \E x \in 0..MaxPow : CallPowerOfTwoNext(x)
    \/ \E keys \in Gradients, position \in EvaluatePositions : CallEvaluate(keys, position)
    \/ CallAngleRadians
    \/ CallRotationRoundTrip
    \/ CallDecomposeRotation
    \/ \E t \in Translations, q \in MatrixRotations, s \in MatrixScales : CallMatrixDecompose(t, q, s)
    \/ \E e \in EulerDegreeAngles : CallSetEulerDegrees(e)
    \/ \E to \in Quats, t \in SlerpTs : CallSlerp(to, t)

Spec == Init /\ [][Next]_vars

\* ------------------------------------------------------------------------
\* Vocabulary of the properties
\* ------------------------------------------------------------------------
Tolerance == <<1, 10000>>

ApproxEq(x, y) == FLe(fabs(FSub(x, y)), Tolerance)

ApproxVec3(u, v) == \A i \in 0..2 : ApproxEq(u[i], v[i])

QuatNeg(q) == Quat(FNeg(q.w), FNeg(q.x), FNeg(q.y), FNeg(q.z))

ApproxQuat(p, q) ==
    ApproxEq(p.x, q.x) /\ ApproxEq(p.y, q.y) /\ ApproxEq(p.z, q.z) /\ ApproxEq(p.w, q.w)

\* the same rotation: q and -q rotate alike
ApproxRotation(p, q) == ApproxQuat(p, q) \/ ApproxQuat(p, QuatNeg(q))

IsUnit(q) ==
    FAdd(FAdd(FAdd(FMul(q.x, q.x), FMul(q.y, q.y)), FMul(q.z, q.z)), FMul(q.w, q.w)) = F(1)

AllFinite(m) == \A i \in 0..3 : \A j \in 0..3 : isfinite(m[i][j])

Column3(m) == Vec3(m[0][3], m[1][3], m[2][3])

BottomRowAffine(m) == m[3] = Vec4(F(0), F(0), F(0), F(1))

\* determinant of the upper-left 3x3 block
Det3(m) ==
    FAdd(FSub(FMul(m[0][0], FSub(FMul(m[1][1], m[2][2]), FMul(m[1][2], m[2][1]))),
              FMul(m[0][1], FSub(FMul(m[1][0], m[2][2]), FMul(m[1][2], m[2][0])))),
         FMul(m[0][2], FSub(FMul(m[1][0], m[2][1]), FMul(m[1][1], m[2][0]))))

InvertibleAffine(m) == AllFinite(m) /\ BottomRowAffine(m) /\ ~IsZero(Det3(m))

\* the inputs Decompose documents as valid: w = 1 and no perspective column
Decomposable(m) ==
    /\ AllFinite(m)
    /\ m[3][3] = F(1)
    /\ Column3(m) = Vec3(F(0), F(0), F(0))
    /\ ~IsZero(Det3(m))

NonDegenerate(x) ==
    /\ IsUnit(x.rotation)
    /\ \A i \in 0..2 : FGt(x.scale[i], F(0))

ApproxIdentity(m) ==
    \A i \in 0..3 : \A j \in 0..3 : ApproxEq(m[i][j], IF i = j THEN F(1) ELSE F(0))

HasDuplicatedRow(m) == \E i \in 0..3 : \E j \in 0..3 : i # j /\ m[i] = m[j]

Dot3(u, v) == FAdd(FAdd(FMul(u[0], v[0]), FMul(u[1], v[1])), FMul(u[2], v[2]))

Row3(m, i) == Vec3(m[i][0], m[i][1], m[i][2])

\* the row lengths of the Gram-Schmidt order X, Y - (Y.X^)X^, Z
GramSchmidtScale(m) ==
    LET X == Row3(m, 0)
        Y == Row3(m, 1)
        Z == Row3(m, 2)
        Xn == Scale(X, F(1))
        d == Dot3(Y, Xn)
        Yo == [i \in 0..2 |-> FSub(Y[i], FMul(d, Xn[i]))]
    IN Vec3(sqrt(Len2(X)), sqrt(Len2(Yo)), sqrt(Len2(Z)))

\* ------------------------------------------------------------------------
\* Properties
\* ------------------------------------------------------------------------

\* C1: decomposing Compose(T, R, S), for a unit R and a scale that is positive
\* on every axis, returns true and gives back T, R (up to sign) and S to
\* within the tolerance.
C1_RoundTrip ==
    (op = "Decompose" /\ origin = "compose" /\ NonDegenerate(trs)) =>
        /\ out.ok
        /\ ApproxVec3(out.translation, trs.translation)
        /\ ApproxRotation(out.rotation, trs.rotation)
        /\ ApproxVec3(out.scale, trs.scale)

\* C2: Decompose returns true for every matrix with M[3][3] = 1, with
\* M[0][3] = M[1][3] = M[2][3] = 0 and with a non-singular upper-left block.
C2_ValidInputSucceeds ==
    (op = "Decompose" /\ Decomposable(a)) => out.ok

\* C3: Decompose returns false whenever M[3][3] is within epsilon of 0,
\* whenever M[3][3] is not within 0.00001 of 1, and whenever one of M[0][3],
\* M[1][3], M[2][3] is non-zero.
C3_InvalidInputRejected ==
    (op = "Decompose" /\ AllFinite(a) /\
        ( \/ epsilonEqual(a[3][3], F(0), epsilon)
          \/ ~epsilonEqual(a[3][3], F(1), <<1, 100000>>)
          \/ \E i \in 0..2 : ~IsZero(a[i][3]) )) => ~out.ok

\* C3 witness: a matrix with w = 1 and a non-zero M[0][3] has been rejected.
C3_Witness ==
    /\ op = "Decompose"
    /\ a[3][3] = F(1)
    /\ ~IsZero(a[0][3])
    /\ ~out.ok

\* C4: Decompose succeeds on the inputs it documents as valid and its
\* translation output is then column 3 of M.
C4_TranslationIsColumn3 ==
    (op = "Decompose" /\ Decomposable(a)) =>
        (out.ok /\ out.translation = Column3(a))

\* C5: Decompose succeeds on the inputs it documents as valid and its scale
\* outputs are then the row lengths of the order X normalised, Y made
\* orthogonal to X and normalised, Z normalised.
C5_GramSchmidtOrder ==
    (op = "Decompose" /\ Decomposable(a)) =>
        (out.ok /\ out.scale = GramSchmidtScale(a))

\* C6: for a unit R, Compose(T, R, S) has column 3 equal to (T.x, T.y, T.z, 1),
\* bottom row (0, 0, 0, 1) and upper-left 3x3 equal to the rotation matrix
\* with column j scaled by S[j].
C6_ComposeStructure ==
    (op = "Compose" /\ IsUnit(trs.rotation)) =>
        /\ Column3(r) = trs.translation
        /\ BottomRowAffine(r)
        /\ \A i \in 0..2 : \A j \in 0..2 :
               r[i][j] = FMul(ToMatrix(trs.rotation)[i][j], trs.scale[j])

\* C6 witness: a composition with a non-zero translation, a rotation that is
\* not the identity and a non-uniform scale.
C6_Witness ==
    /\ op = "Compose"
    /\ IsUnit(trs.rotation)
    /\ trs.rotation # QuatIdentity
    /\ trs.translation[0] # F(0)
    /\ trs.scale[0] # trs.scale[1]

\* C7: the copy constructor gives a matrix equal to its argument.
C7_CopyEqualsSource ==
    op = "Copy" => Mat4Eq(r, a)

\* C8: for every invertible affine M, M * M.GetInverse() is the identity to
\* within 1e-4 in every element.
C8_InverseRoundTrip ==
    (op = "Multiply" /\ InvertibleAffine(a) /\ b = GetInverse(a)) => ApproxIdentity(r)

\* C8 witness: the product of an affine matrix that translates and scales
\* with its inverse has been formed.
C8_Witness ==
    /\ op = "Multiply"
    /\ InvertibleAffine(a)
    /\ b = GetInverse(a)
    /\ a[0][3] # F(0)
    /\ a[0][0] # a[1][1]
    /\ ApproxIdentity(r)

\* C9: GetInverse of a matrix with a duplicated row returns, without any
\* check, a matrix with at least one non-finite entry.
C9_SingularInverseNonFinite ==
    (op = "GetInverse" /\ AllFinite(a) /\ HasDuplicatedRow(a)) => ~AllFinite(r)

\* C9 witness: the inverse of the matrix with rows (1,0,0,0), (1,0,0,0),
\* (0,1,0,0), (0,0,1,1) has been taken and is not finite.
C9_Witness ==
    /\ op = "GetInverse"
    /\ a = Mat4Rows(Vec4(F(1), F(0), F(0), F(0)), Vec4(F(1), F(0), F(0), F(0)),
                    Vec4(F(0), F(1), F(0), F(0)), Vec4(F(0), F(0), F(1), F(1)))
    /\ ~AllFinite(r)

\* C10 as stated: for every Mat4 M, Identity * M == M and M * Identity == M.
C10_IdentityMultiplyAnyMatrix ==
    /\ (op = "Multiply" /\ a = Identity) => Mat4Eq(r, b)
    /\ (op = "Multiply" /\ b = Identity) => Mat4Eq(r, a)

\* C10: for every Mat4 M whose sixteen elements are finite, Identity * M == M
\* and M * Identity == M, element for element.
C10_IdentityMultiplyFinite ==
    /\ (op = "Multiply" /\ a = Identity /\ AllFinite(b)) => Mat4Eq(r, b)
    /\ (op = "Multiply" /\ b = Identity /\ AllFinite(a)) => Mat4Eq(r, a)

\* C10 witness: Identity has been multiplied on the left of a finite matrix
\* with a translation column that is neither the identity nor zero.
C10_Witness ==
    /\ op = "Multiply"
    /\ a = Identity
    /\ AllFinite(b)
    /\ b # Identity
    /\ b[0][3] # F(0)
    /\ Mat4Eq(r, b)

\* ------------------------------------------------------------------------
\* Vocabulary of the properties of the operators and of Quat
\* ------------------------------------------------------------------------
ZeroQuat == Quat(F(0), F(0), F(0), F(0))

QuatFinite(q) == isfinite(q.w) /\ isfinite(q.x) /\ isfinite(q.y) /\ isfinite(q.z)

\* a quaternion with finite components and a magnitude that is not zero
NonZeroQuat(q) == QuatFinite(q) /\ q # ZeroQuat

\* q and -q are the same rotation
SameRotation(p, q) == p = q \/ p = QuatNeg(q)

\* the calls that build the client's object
Constructors == {"Construct", "Compose", "ConstructQuat"}

CompoundAssignments ==
    {"AddAssign", "SubAssign", "MulAssignScalar", "DivAssignScalar", "MulAssign"}

\* (old A) op B for the compound assignment named by op
CompoundResult(name, A, B, s) ==
    IF name = "AddAssign" THEN Mat4Add(A, B)
    ELSE IF name = "SubAssign" THEN Mat4Sub(A, B)
    ELSE IF name = "MulAssignScalar" THEN Mat4MulScalar(A, s)
    ELSE IF name = "DivAssignScalar" THEN Mat4DivScalar(A, s)
    ELSE Multiply(A, B)

\* the formula in cr, cp, cy, sr, sp, sy
CrCpCyFormula(cr, sr, cp, sp, cy, sy) ==
    Quat(FAdd(FMul(FMul(cr, cp), cy), FMul(FMul(sr, sp), sy)),
         FAdd(FMul(FMul(FNeg(sr), cp), cy), FMul(FMul(cr, sp), sy)),
         FAdd(FMul(FMul(cr, sp), cy), FMul(FMul(sr, cp), sy)),
         FSub(FMul(FMul(cr, cp), sy), FMul(FMul(sr, sp), cy)))

\* the documented quaternion of the Euler angles X, Y, Z in radians
DocumentedEuler(X, Y, Z) ==
    CrCpCyFormula(cosf(FMul(X, Q(1, 2))), sinf(FMul(X, Q(1, 2))),
                  cosf(FMul(Y, Q(1, 2))), sinf(FMul(Y, Q(1, 2))),
                  cosf(FMul(Z, Q(1, 2))), sinf(FMul(Z, Q(1, 2))))

\* the dot product Slerp tests, of its two normalised operands
SlerpDot(from, to) == QuatDot(GetNormalized(from), GetNormalized(to))

\* ------------------------------------------------------------------------
\* Properties of the operators and of Quat
\* ------------------------------------------------------------------------

C12_Vec3Overloads ==
    /\ op = "MulVec3" =>
           \A i \in 0..3 :
               r[i] = FAdd(FAdd(FAdd(FMul(a[i][0], b[0]), FMul(a[i][1], b[1])),
                                FMul(a[i][2], b[2])), a[i][3])
    /\ op = "MatrixMulVec3" =>
           r = IF FEq(MatrixColumnDot(a, b, 3), F(1))
               THEN Vec3(MatrixColumnDot(a, b, 0), MatrixColumnDot(a, b, 1),
                         MatrixColumnDot(a, b, 2))
               ELSE Vec3(FDiv(MatrixColumnDot(a, b, 0), MatrixColumnDot(a, b, 3)),
                         FDiv(MatrixColumnDot(a, b, 1), MatrixColumnDot(a, b, 3)),
                         FDiv(MatrixColumnDot(a, b, 2), MatrixColumnDot(a, b, 3)))

\* C12 witness: Mat4 * Vec3 has returned a w that is neither 1 nor 0, next to
\* an x that is not zero and has not been divided.
C12_Witness ==
    /\ op = "MulVec3"
    /\ AllFinite(a)
    /\ ~IsZero(r[3])
    /\ r[3] # F(1)
    /\ ~IsZero(r[0])

C14_CompoundAssignReturnsThis ==
    op \in CompoundAssignments => (r = cur /\ cur = CompoundResult(op, a, b, k))

\* C15: for non-zero q1 and q2, ToMatrix(q1 * q2) is ToMatrix(q1) * ToMatrix(q2),
\* and (q1 * q2) rotates a vector as q2 followed by q1.
C15_HamiltonComposition ==
    (op = "QuatMul" /\ NonZeroQuat(a) /\ NonZeroQuat(b)) =>
        /\ ToMatrix(r) = Multiply(ToMatrix(a), ToMatrix(b))
        /\ \A v \in Points : QuatMulVec3(r, v) = QuatMulVec3(a, QuatMulVec3(b, v))

\* C15 witness: two rotations that do not commute have been multiplied.
C15_Witness ==
    /\ op = "QuatMul"
    /\ NonZeroQuat(a)
    /\ NonZeroQuat(b)
    /\ r # QuatProduct(b, a)
    /\ ToMatrix(r) = Multiply(ToMatrix(a), ToMatrix(b))

\* C16: for the quaternion (0, 0, 0, 0), GetNormalized() returns the identity
\* and Normalize() leaves four components that are not finite.
C16_NormalizeZero ==
    /\ (op = "GetNormalized" /\ a = ZeroQuat) => r = QuatIdentity
    /\ (op = "Normalize" /\ a = ZeroQuat) =>
           (~isfinite(qcur.w) /\ ~isfinite(qcur.x) /\ ~isfinite(qcur.y) /\ ~isfinite(qcur.z))

\* C16 witness: Normalize() has been called on the zero quaternion.
C16_Witness ==
    /\ op = "Normalize"
    /\ a = ZeroQuat
    /\ IsNaN(qcur.w)

\* C17: EulerRadians(X, Y, Z), and EulerDegrees after the conversion to
\* radians, return w = cr*cp*cy + sr*sp*sy, x = -sr*cp*cy + cr*sp*sy,
\* y = cr*sp*cy + sr*cp*sy, z = cr*cp*sy - sr*sp*cy.
C17_DocumentedEulerFormula ==
    /\ op = "EulerRadians" => r = DocumentedEuler(b[0], b[1], b[2])
    /\ op = "EulerDegrees" =>
           r = DocumentedEuler(FMul(b[0], DegToRad), FMul(b[1], DegToRad),
                               FMul(b[2], DegToRad))

\* C18: for every non-zero q and non-zero k, ToMatrix(k * q) is ToMatrix(q).
C18_ToMatrixScaleInvariant ==
    (op = "ToMatrix" /\ NonZeroQuat(a) /\ ~IsZero(k)) => r = ToMatrix(a)

\* C18 witness: the matrix of twice a quaternion that is not a unit one has
\* been taken, and it is a rotation other than the identity.
C18_Witness ==
    /\ op = "ToMatrix"
    /\ k = F(2)
    /\ NonZeroQuat(a)
    /\ ~IsUnit(a)
    /\ r # Identity
    /\ r = ToMatrix(a)

\* C19: for every q of non-zero magnitude, q * q.GetInverse() is the identity
\* quaternion, and q is as it was.
C19_InverseProduct ==
    (op = "QuatMul" /\ NonZeroQuat(a) /\ b = QuatGetInverse(a)) =>
        (r = QuatIdentity /\ qcur = a)

\* C19 witness: a quaternion that is not a unit one has been multiplied by its
\* inverse.
C19_Witness ==
    /\ op = "QuatMul"
    /\ NonZeroQuat(a)
    /\ ~IsUnit(a)
    /\ b = QuatGetInverse(a)
    /\ r = QuatIdentity

\* C20 as stated: for all a, b and t, Slerp(a, b, t) and Slerp(a, -b, t) are
\* the same rotation.
C20_SlerpDoubleCoverAll ==
    op = "Slerp" => SameRotation(r, Slerp(a, QuatNeg(b), k))

\* C20: for all a and b whose normalised forms have a dot product that is not
\* zero, and all t, Slerp(a, b, t) and Slerp(a, -b, t) are the same rotation.
C20_SlerpDoubleCoverNonOrthogonal ==
    (op = "Slerp" /\ ~IsZero(SlerpDot(a, b))) => SameRotation(r, Slerp(a, QuatNeg(b), k))

\* C20 witness: a Slerp half way along an arc whose operands have a negative
\* dot product, so that the second one was negated.
C20_Witness ==
    /\ op = "Slerp"
    /\ FLt(SlerpDot(a, b), F(0))
    /\ FGt(SlerpDot(a, b), F(-1))
    /\ k = Q(1, 2)
    /\ r = Slerp(a, QuatNeg(b), k)

\* ------------------------------------------------------------------------
\* Properties of the rotation helpers, the integer helpers, Gradient and the
\* legacy Matrix
\* ------------------------------------------------------------------------
\* pi, to four decimals
Pi == Q(31416, 10000)

\* the vector part of a quaternion
VectorPart(q) == Vec3(q.x, q.y, q.z)

\* C21: for every non-zero v, FromToRotation(v, -v) is a half turn about an
\* axis orthogonal to v: Quat::Angle(identity, result) lies strictly between
\* 179 and 181 degrees and the vector part of the result is orthogonal to v.
C21_OppositeIsHalfTurn ==
    (op = "FromToRotation" /\ b = Vec3Neg(a) /\ ~IsZero(Dot(a, a)))
        => /\ FGt(k, F(179))
           /\ FLt(k, F(181))
           /\ IsZero(Dot(VectorPart(r), a))

\* C22: for every q with finite w, AngleRadians(q) is not NaN and lies in
\* [0, pi].
C22_AngleRadiansRange ==
    (op = "AngleRadians" /\ isfinite(a.w))
        => ~IsNaN(r) /\ FLe(F(0), r) /\ FLe(r, Pi)

\* the largest of the four terms of RotationMatrixToQuaternion
LargestTerm(mRot) ==
    CHOOSE t \in {RotationTerm(mRot, n) : n \in 0..3} :
        \A n \in 0..3 : FLe(RotationTerm(mRot, n), t)

\* C23: for every unit q, RotationMatrixToQuaternion(CreateRotation(q)) is q
\* or -q, and the value the branch taken divides by is the square root of the
\* largest of the four candidate terms.
C23_RoundTripDividesByLargest ==
    (op = "RotationRoundTrip" /\ IsUnit(a))
        => SameRotation(r, a) /\ RotationRoot(b) = sqrt(LargestTerm(b))

\* C23: for every unit q, RotationMatrixToQuaternion(CreateRotation(q)) is q
\* or -q in each of the four branches; the value divided by is
\* sqrt(1 + trace), above 1, in the positive-trace branch and the square root
\* of the largest of the four terms in the three others, so at least 1 always.
C23_RoundTripDivisorAtLeastOne ==
    (op = "RotationRoundTrip" /\ IsUnit(a))
        => /\ SameRotation(r, a)
           /\ FLe(F(1), RotationRoot(b))
           /\ RotationBranch(b) = 0 => FGt(RotationRoot(b), F(1))
           /\ RotationBranch(b) # 0 => RotationRoot(b) = sqrt(LargestTerm(b))

\* C23 witness: a round trip through the positive-trace branch that returns
\* -q, for a unit q whose x is larger in magnitude than its w.
C23_Witness ==
    /\ op = "RotationRoundTrip"
    /\ IsUnit(a)
    /\ RotationBranch(b) = 0
    /\ RotationRoot(b) # sqrt(LargestTerm(b))
    /\ r = QuatNeg(a)
    /\ r # a

\* n is a multiple of fac
MultipleOf(n, fac) == \E m \in -(2 * MaxInt)..(2 * MaxInt) : n = m * fac

\* C24: for all x and all fac > 0, RoundDown(x, fac) is the largest multiple
\* of fac that is <= x: RoundDown(x, fac) <= x < RoundDown(x, fac) + fac.
C24_RoundDownIsFloorMultiple ==
    (op = "RoundDown" /\ b > 0) => MultipleOf(r, b) /\ r <= a /\ a < r + b

\* C25: for all x and all fac > 0, RoundUp(x, fac) is the smallest multiple
\* of fac that is >= x: RoundUp(x, fac) - fac < x <= RoundUp(x, fac).
C25_RoundUpIsCeilingMultiple ==
    (op = "RoundUp" /\ b > 0) => MultipleOf(r, b) /\ r - b < a /\ a <= r

\* C26: with two or more keys in increasing position order, Evaluate returns
\* the first key's colour for every position below the first key's position
\* and the last key's colour for every position at or above the last key's.
C26_EvaluateOutsideIsNearestEdge ==
    (op = "Evaluate" /\ Len(a) >= 2)
        => /\ FLt(k, a[1].position) => r = a[1].value
           /\ FLe(a[Len(a)].position, k) => r = a[Len(a)].value

\* n is a power of two
IsPowerOfTwo(n) == \E e \in 0..30 : n = 2 ^ e

\* C30: for every x with 0 <= x <= 2^30, power_of_two_next(x) is a power of
\* two that is >= x.
C30_NextIsPowerOfTwo ==
    op = "power_of_two_next" => IsPowerOfTwo(r) /\ r >= a

\* C27: for every Mat4 with a non-zero determinant, the adjoint divided cell by
\* cell by GetDeterminant(M, 4) equals the closed-form GetInverse(M)
C27_AdjointOverDeterminantIsInverse ==
    (op = "GetAdjoint" /\ AllFinite(a) /\ ~IsZero(k)) => Mat4Eq(r, b)

\* a matrix that is not symmetric, with a determinant other than 0 and 1, whose
\* inverse is not symmetric either
C27_Witness ==
    /\ op = "GetAdjoint"
    /\ AllFinite(a)
    /\ ~IsZero(k)
    /\ ~FEq(k, F(1))
    /\ ~Mat4Eq(b, GetTranspose(b))
    /\ Mat4Eq(r, b)

\* C28: for every unit quaternion R, Transforms::Decompose of R.ToMatrix()
\* succeeds and its rotation output is R or -R
C28_DecomposeKeepsToMatrixConvention ==
    (op = "DecomposeRotation" /\ IsUnit(a)) => (out.ok /\ SameRotation(out.rotation, a))

\* a scale that is strictly positive on every axis
PositiveScale(scale) == FGt(scale[0], F(0)) /\ FGt(scale[1], F(0)) /\ FGt(scale[2], F(0))

\* C29: for a Matrix built by Matrix(translation, rotation, scale) from a unit
\* quaternion and a strictly positive scale, Matrix::Decompose returns that
\* scale, that translation and that rotation up to sign
C29_MatrixDecomposeInvertsTRS ==
    (op = "MatrixDecompose" /\ IsUnit(a.rotation) /\ PositiveScale(a.scale))
        => /\ r.scale = a.scale
           /\ r.translation = a.translation
           /\ SameRotation(r.rotation, a.rotation)

\* a rotation other than the identity, a scale that differs between the axes
\* and a translation other than zero have been given back
C29_Witness ==
    /\ op = "MatrixDecompose"
    /\ IsUnit(a.rotation)
    /\ PositiveScale(a.scale)
    /\ a.rotation # Conjugate(a.rotation)
    /\ a.scale[0] # a.scale[1]
    /\ a.scale[0] # F(1)
    /\ a.translation[0] # F(0)
    /\ r.scale = a.scale
    /\ r.translation = a.translation
    /\ SameRotation(r.rotation, a.rotation)

=============================================================================
